---- MODULE Spec2Model ----
(***************************************************************************)
(* Verification model of the qldb driver (DavidBM/qldb-rs).                *)
(*                                                                         *)
(*  Part I   ThreadedSessionPool  (src/src/session_pool/session_pool_      *)
(*           thread.rs): the request task, the returning task, the         *)
(*           spawned close_session tasks and the callers of get(),         *)
(*           give_back() and close().             Specification SpecPool   *)
(***************************************************************************)
EXTENDS Integers, Sequences, FiniteSets, TLC

(***************************************************************************)
(* Bounds of the model.                                                    *)
(***************************************************************************)
\* callers of get()/give_back() running concurrently
NumCallers == 2
\* sessions the server hands out before the model stops provisioning
MaxCreated == 2
\* the max_sessions the pool is constructed with
PoolSize == 1
\* consecutive failures the server injects into one create_session / close_session
MaxFaults == 1

(***************************************************************************)
(* Program constants.                                                      *)
(***************************************************************************)
\* `Err(error) if tries > 10` in create_session and close_session
MaxTries == 10

Callers == 1..NumCallers
SessionIds == 1..MaxCreated
\* the empty Option<Session> / empty reply channel / no sender
NoSession == 0
NoCaller == 0

VARIABLES
    \* ------------------------------------------------ ThreadedSessionPool
    max_sessions,     \* constructor argument
    sessions,         \* VecDeque<Session>: the idle sessions; back = end of the sequence
    session_count,    \* AtomicU16, created 0
    is_closed,        \* AtomicBool
    requesting,       \* unbounded channel of reply senders (one per pending get())
    returning,        \* unbounded channel of sessions given back
    req_pc,           \* request task: "recv" | "loop" | "refill" | "done"
    req_sender,       \* the sender the request task is serving
    req_tries,        \* `tries` of the create_session in progress
    ret_pc,           \* returning task: "recv" | "done"
    closing,          \* spawned close_session tasks: set of <<session, tries>>
    \* ------------------------------------------------ server and clock
    created,          \* sessions started by the server so far (ids 1..created)
    expired,          \* sessions older than the 10 minute TTL: is_valid() is false
    \* ------------------------------------------------ callers
    caller,           \* per caller: "idle" | "waiting" | "waiting_late" | "holding"
                      \* ("waiting_late": its get() was issued after close())
    reply,            \* per caller: the bounded(1) reply channel of its get()
    sender_dropped,   \* per caller: its reply sender was dropped without a send
    held,             \* per caller: the session get() returned
    delivered         \* per session still alive: times it was delivered (capped at 2)

poolVars == <<max_sessions, sessions, session_count, is_closed, requesting, returning,
              req_pc, req_sender, req_tries, ret_pc, closing,
              created, expired,
              caller, reply, sender_dropped, held, delivered>>

(***************************************************************************)
(*  Part II  Transaction, QueryBuilder, Cursor and transaction_within      *)
(*           (src/src/transaction.rs, query_builder.rs, cursor.rs,         *)
(*           client.rs).  Specifications SpecTx, SpecCursor, SpecDigest    *)
(***************************************************************************)
\* clones of a transaction handle / concurrent users of the API
NumProcs == 2
\* builders created per transaction
MaxStatements == 2
\* .param() calls per builder
MaxParams == 2
\* pages the server splits a result into
MaxPages == 2
\* values one statement returns
MaxRows == 2
\* sessions that reach their TTL in one behaviour of SessionPool
MaxExpirations == 1
\* the model's hash is an integer below HashMod
HashMod == 1009

Procs == 1..NumProcs
Txs == 1..NumProcs
\* statement texts and parameter values (codes)
Statements == {11, 12}
ParamValues == {21, 22}
\* Option<String>::None of next_page_token
NoToken == 0

VARIABLES
    \* ------------------------------------------------ fixed per behaviour
    tx_of,            \* per process: the transaction its handle is a clone of
    transaction_id,   \* per transaction: Arc<String> returned by start-transaction
    tx_session,       \* per transaction: the token of its `session`
    auto_rollback,    \* per transaction: the flag its builders are created with
    \* ------------------------------------------------ QLDBTransaction
    completed,        \* per transaction: Arc<Mutex<bool>>
    hasher,           \* per transaction: Arc<Mutex<IonHash>>
    \* ------------------------------------------------ QueryBuilder and Cursor
    qb,               \* per process: its builder / cursor
    \* ------------------------------------------------ the calls in progress
    proc,             \* per process: [pc, call, res, digest, statement, params, noop]
    within,           \* per process: transaction_within [pc, closure, result]
    \* ------------------------------------------------ what the server has seen
    wire,             \* per transaction: [commits, aborts, statements, commit_digest]
    completed_by,     \* per transaction: the call whose complete() set the flag
    commit_failed,    \* per transaction: a commit-transaction command failed
    queries,          \* per transaction: builders created
    \* ------------------------------------------------ calls of pure functions
    arg,              \* the argument of the call
    ret,              \* its return value, NoReturn before the call
    \* ------------------------------------------------ history
    given_back,       \* the sessions given back, each once, the latest last
    \* ------------------------------------------------ SessionPool (session_pool.rs)
    receiver,               \* the channel of PoolCommand, oldest first
    sp_sessions,            \* `sessions`: VecDeque<Session>, front first
    session_requests,       \* VecDeque<Sender<Session>>, front first
    active_session_count,   \* AtomicU16
    session_create_request, \* the number of () in the channel
    command_pc,             \* the command task: "recv", "loop", "close_return", "close_request"
    command_sender,         \* the requester its loop serves
    command_session,        \* the session its close_session ends
    create_pc,              \* the session creation task: "recv", "creating", "timer"
    sp_caller,              \* per caller: "idle", "waiting", "holding"
    sp_reply,               \* per caller: the bounded(1) channel of its get()
    sp_held,                \* per caller: the session it holds
    sp_expired,             \* the sessions older than the TTL
    expirations,            \* how many sessions have expired
    asked,                  \* history: the callers inside get(), the earliest first
    handed                  \* history, per caller: what made the pool answer its get()

cfgVars == <<tx_of, transaction_id, tx_session, auto_rollback>>

txVars == <<cfgVars, completed, hasher, qb, proc, within,
            wire, completed_by, commit_failed, queries>>

\* the variables of the parts of the crate that are neither the threaded pool
\* nor a transaction
fnVars == <<arg, ret>>

spVars == <<receiver, sp_sessions, session_requests, active_session_count,
            session_create_request, command_pc, command_sender, command_session,
            create_pc, sp_caller, sp_reply, sp_held, sp_expired, expirations,
            asked, handed>>

restVars == <<fnVars, given_back, spVars>>

vars == <<poolVars, txVars, restVars>>

\* no call has returned
NoReturn == [res |-> "none", v |-> 0]

\* no pure function is being called
\* the tasks calling get() and give_back() of a SessionPool: one to hold a
\* session while the others wait
SpCallers == 1..(NumCallers + 1)

NoCall ==
    /\ arg = <<>>
    /\ ret = NoReturn

\* SessionPool::new: the state of a new pool
SessionPoolInit ==
    /\ receiver = <<>>
    /\ sp_sessions = <<>>
    /\ session_requests = <<>>
    /\ active_session_count = 0
    /\ session_create_request = 0
    /\ command_pc = "recv"
    /\ command_sender = 0
    /\ command_session = 0
    /\ create_pc = "recv"
    /\ sp_caller = [c \in SpCallers |-> "idle"]
    /\ sp_reply = [c \in SpCallers |-> 0]
    /\ sp_held = [c \in SpCallers |-> 0]
    /\ sp_expired = {}
    /\ expirations = 0
    /\ asked = <<>>
    /\ handed = [c \in SpCallers |-> "none"]

\* nothing but the threaded pool and the transactions is in use
RestIdle ==
    /\ NoCall
    /\ given_back = <<>>
    /\ SessionPoolInit

(***************************************************************************)
(* Helpers on the VecDeque and on sessions.                                *)
(***************************************************************************)
\* Session::is_valid: created less than 10 minutes ago
IsValid(s) == s \notin expired

\* VecDeque::pop_back: the element returned
PopBackSession(q) == IF q = <<>> THEN NoSession ELSE q[Len(q)]

\* mutant of PopBackRest: the session handed out stays in the queue
PopBackRestKeeps(q) == q

\* VecDeque::pop_back: what is left in the queue
PopBackRest(q) == IF q = <<>> THEN <<>> ELSE SubSeq(q, 1, Len(q) - 1)

\* VecDeque::push_front
PushFront(q, s) == <<s>> \o q

\* VecDeque::push_back
PushBack(q, s) == Append(q, s)

SeqElems(q) == {q[i] : i \in 1..Len(q)}

\* sessions delivered to callers: in a reply channel or held
CheckedOut == {s \in SessionIds : \E c \in Callers : reply[c] = s \/ held[c] = s}

\* where a session can still expire observably
Live == SeqElems(sessions) \cup SeqElems(returning) \cup CheckedOut

\* u16::saturating_sub(1)
SaturatingDec(n) == IF n = 0 THEN 0 ELSE n - 1

Bump(n) == IF n >= 2 THEN 2 ELSE n + 1

\* the delivery history of a session is kept only while the pool or a caller has it
Forget(d, s) == [d EXCEPT ![s] = 0]

(***************************************************************************)
(* Init: the state ThreadedSessionPool::new leaves.                        *)
(***************************************************************************)
PoolInit ==
    /\ max_sessions = PoolSize
    /\ sessions = <<>>
    /\ session_count = 0
    /\ is_closed = FALSE
    /\ requesting = <<>>
    /\ returning = <<>>
    /\ req_pc = "recv"
    /\ req_sender = NoCaller
    /\ req_tries = 0
    /\ ret_pc = "recv"
    /\ closing = {}
    /\ created = 0
    /\ expired = {}
    /\ caller = [c \in Callers |-> "idle"]
    /\ reply = [c \in Callers |-> NoSession]
    /\ sender_dropped = [c \in Callers |-> FALSE]
    /\ held = [c \in Callers |-> NoSession]
    /\ delivered = [s \in SessionIds |-> 0]

(***************************************************************************)
(* Callers.                                                                *)
(***************************************************************************)
\* ThreadedSessionPool::get, up to the await: try_send of a fresh reply sender.
\* The request channel is closed once the request task has ended.
Get(c) ==
    /\ caller[c] = "idle"
    /\ IF req_pc = "done"
       THEN UNCHANGED <<requesting, caller>>
       ELSE /\ requesting' = Append(requesting, c)
            /\ caller' = [caller EXCEPT ![c] = "waiting"]
    /\ UNCHANGED <<max_sessions, sessions, session_count, is_closed, returning,
                   req_pc, req_sender, req_tries, ret_pc, closing,
                   created, expired, reply, sender_dropped, held, delivered,
                   txVars, restVars>>

\* get() issued before close()
GetEarly(c) == ~is_closed /\ Get(c)

\* get() issued after close(): as Get, the caller being marked
GetAfterClose(c) ==
    /\ is_closed
    /\ caller[c] = "idle"
    /\ IF req_pc = "done"
       THEN UNCHANGED <<requesting, caller>>
       ELSE /\ requesting' = Append(requesting, c)
            /\ caller' = [caller EXCEPT ![c] = "waiting_late"]
    /\ UNCHANGED <<max_sessions, sessions, session_count, is_closed, returning,
                   req_pc, req_sender, req_tries, ret_pc, closing,
                   created, expired, reply, sender_dropped, held, delivered,
                   txVars, restVars>>

\* ThreadedSessionPool::get, receiver.recv() returns the session
GetReceive(c) ==
    /\ caller[c] \in {"waiting", "waiting_late"}
    /\ reply[c] # NoSession
    /\ held' = [held EXCEPT ![c] = reply[c]]
    /\ reply' = [reply EXCEPT ![c] = NoSession]
    /\ caller' = [caller EXCEPT ![c] = "holding"]
    /\ UNCHANGED <<max_sessions, sessions, session_count, is_closed, requesting, returning,
                   req_pc, req_sender, req_tries, ret_pc, closing,
                   created, expired, sender_dropped, delivered,
                   txVars, restVars>>

\* ThreadedSessionPool::get, receiver.recv() fails: the sender was dropped
GetFail(c) ==
    /\ caller[c] \in {"waiting", "waiting_late"}
    /\ reply[c] = NoSession
    /\ sender_dropped[c]
    /\ sender_dropped' = [sender_dropped EXCEPT ![c] = FALSE]
    /\ caller' = [caller EXCEPT ![c] = "idle"]
    /\ UNCHANGED <<max_sessions, sessions, session_count, is_closed, requesting, returning,
                   req_pc, req_sender, req_tries, ret_pc, closing,
                   created, expired, reply, held, delivered,
                   txVars, restVars>>

\* ThreadedSessionPool::give_back: try_send on the returning channel, error ignored.
\* The channel is closed once the returning task has ended.
GiveBackSend(c) ==
    /\ caller[c] = "holding"
    /\ IF ret_pc = "done"
       THEN /\ delivered' = Forget(delivered, held[c])
            /\ UNCHANGED returning
       ELSE /\ returning' = Append(returning, held[c])
            /\ UNCHANGED delivered
    /\ held' = [held EXCEPT ![c] = NoSession]
    /\ caller' = [caller EXCEPT ![c] = "idle"]
    /\ UNCHANGED <<max_sessions, sessions, session_count, is_closed, requesting,
                   req_pc, req_sender, req_tries, ret_pc, closing,
                   created, expired, reply, sender_dropped,
                   txVars>>

\* ThreadedSessionPool::give_back
GiveBack(c) == GiveBackSend(c) /\ UNCHANGED restVars

\* the sequence q without the value x
Without(q, x) == SelectSeq(q, LAMBDA y : y # x)

\* give_back, with the session noted as the one given back last
GiveBackNoted(c) ==
    /\ GiveBackSend(c)
    /\ given_back' = Append(Without(given_back, held[c]), held[c])
    /\ UNCHANGED <<fnVars, spVars>>

\* ThreadedSessionPool::close
Close ==
    /\ ~is_closed
    /\ is_closed' = TRUE
    /\ UNCHANGED <<max_sessions, sessions, session_count, requesting, returning,
                   req_pc, req_sender, req_tries, ret_pc, closing,
                   created, expired,
                   caller, reply, sender_dropped, held, delivered,
                   txVars, restVars>>

\* Time passes: a session reaches the age of 10 minutes
Expire(s) ==
    /\ s \in Live
    /\ s \notin expired
    /\ expired' = expired \cup {s}
    /\ UNCHANGED <<max_sessions, sessions, session_count, is_closed, requesting, returning,
                   req_pc, req_sender, req_tries, ret_pc, closing,
                   created,
                   caller, reply, sender_dropped, held, delivered,
                   txVars, restVars>>

(***************************************************************************)
(* The request task (session_pool_thread.rs 47-84).                        *)
(***************************************************************************)
\* provide_session: try_send on the caller's bounded(1) reply channel
ProvideSession(c, s) ==
    /\ reply' = [reply EXCEPT ![c] = s]
    /\ delivered' = [delivered EXCEPT ![s] = Bump(delivered[s])]

\* requeue_session_request
RequeueSessionRequest(c) == requesting' = Append(requesting, c)

\* `while let Ok(sender) = requesting_receiver.recv().await { if is_closed { break } ...`
ReqRecv ==
    /\ req_pc = "recv"
    /\ requesting # <<>>
    /\ requesting' = Tail(requesting)
    /\ IF is_closed
       THEN /\ req_pc' = "done"
            /\ sender_dropped' = [sender_dropped EXCEPT ![Head(requesting)] = TRUE]
            /\ UNCHANGED req_sender
       ELSE /\ req_pc' = "loop"
            /\ req_sender' = Head(requesting)
            /\ UNCHANGED sender_dropped
    /\ UNCHANGED <<max_sessions, sessions, session_count, is_closed, returning,
                   req_tries, ret_pc, closing, created, expired,
                   caller, reply, held, delivered,
                   txVars, restVars>>

\* one iteration of the inner `loop`
ReqLoop ==
    /\ req_pc = "loop"
    /\ LET session == PopBackSession(sessions)
           rest == PopBackRest(sessions)
           pooled_sessions_count == Len(rest)
       IN  IF session # NoSession
           THEN /\ sessions' = rest
                /\ IF IsValid(session)
                   THEN /\ ProvideSession(req_sender, session)
                        /\ req_pc' = "recv"
                        /\ req_sender' = NoCaller
                        /\ UNCHANGED <<closing, requesting, req_tries>>
                   ELSE /\ closing' = closing \cup {<<session, 0>>}
                        /\ delivered' = Forget(delivered, session)
                        /\ UNCHANGED <<req_pc, req_sender, reply,
                                       requesting, req_tries>>
           ELSE /\ IF pooled_sessions_count < max_sessions
                   THEN /\ req_pc' = "refill"
                        /\ req_tries' = 0
                        /\ UNCHANGED <<requesting, req_sender>>
                   ELSE /\ RequeueSessionRequest(req_sender)
                        /\ req_pc' = "recv"
                        /\ req_sender' = NoCaller
                        /\ UNCHANGED req_tries
                /\ UNCHANGED <<sessions, closing, reply, delivered>>
    /\ UNCHANGED <<max_sessions, session_count, is_closed, returning,
                   ret_pc, created, expired,
                   caller, sender_dropped, held,
                   txVars, restVars>>

\* refill_session: create_session succeeded, the new session is pushed at the back
RefillOk ==
    /\ req_pc = "refill"
    /\ created < MaxCreated
    /\ created' = created + 1
    /\ sessions' = PushBack(sessions, created + 1)
    /\ req_pc' = "loop"
    /\ req_tries' = 0
    /\ UNCHANGED <<max_sessions, session_count, is_closed, requesting, returning,
                   req_sender, ret_pc, closing, expired,
                   caller, reply, sender_dropped, held, delivered,
                   txVars, restVars>>

\* create_session: one start-session command failed
CreateSessionFail(recoverable) ==
    /\ req_pc = "refill"
    /\ LET tries == req_tries + 1
       IN  IF tries > MaxTries \/ ~recoverable
           THEN \* create_session returns Err, refill_session pushes nothing, `continue`
                /\ req_pc' = "loop"
                /\ req_tries' = 0
           ELSE \* Timer::after(tries * tries * 75 ms), next attempt
                /\ req_tries' = tries
                /\ UNCHANGED req_pc
    /\ UNCHANGED <<max_sessions, sessions, session_count, is_closed, requesting, returning,
                   req_sender, ret_pc, closing, created, expired,
                   caller, reply, sender_dropped, held, delivered,
                   txVars, restVars>>

\* a failed start-session command, while the server fails at most MaxFaults
\* times in a row
RefillFail(recoverable) ==
    /\ req_tries < MaxFaults
    /\ CreateSessionFail(recoverable)

(***************************************************************************)
(* The returning task (session_pool_thread.rs 95-111).  It shares the      *)
(* single-threaded LocalExecutor with the request task, so it runs only    *)
(* while the request task is suspended at an await.                        *)
(***************************************************************************)
ExecutorFree == req_pc # "loop"

RetRecv ==
    /\ ExecutorFree
    /\ ret_pc = "recv"
    /\ returning # <<>>
    /\ returning' = Tail(returning)
    /\ LET session == Head(returning)
       IN  IF is_closed
           THEN /\ ret_pc' = "done"
                /\ delivered' = Forget(delivered, session)
                /\ UNCHANGED <<sessions, closing>>
           ELSE IF ~IsValid(session)
           THEN /\ closing' = closing \cup {<<session, 0>>}
                /\ delivered' = Forget(delivered, session)
                /\ UNCHANGED <<sessions, ret_pc>>
           ELSE /\ sessions' = PushFront(sessions, session)
                /\ UNCHANGED <<closing, ret_pc, delivered>>
    /\ UNCHANGED <<max_sessions, session_count, is_closed, requesting,
                   req_pc, req_sender, req_tries, created, expired,
                   caller, reply, sender_dropped, held,
                   txVars, restVars>>

(***************************************************************************)
(* close_session (session_pool_thread.rs 189-221): a detached task.        *)
(***************************************************************************)
\* qldb_close_session succeeded
EndSessionOk(s, tries) ==
    /\ ExecutorFree
    /\ <<s, tries>> \in closing
    /\ closing' = closing \ {<<s, tries>>}
    /\ session_count' = SaturatingDec(session_count)
    /\ UNCHANGED <<max_sessions, sessions, is_closed, requesting, returning,
                   req_pc, req_sender, req_tries, ret_pc, created, expired,
                   caller, reply, sender_dropped, held, delivered,
                   txVars, restVars>>

\* qldb_close_session failed
EndSessionFail(s, tries) ==
    /\ ExecutorFree
    /\ <<s, tries>> \in closing
    /\ tries < MaxFaults
    /\ IF tries + 1 > MaxTries
       THEN /\ closing' = closing \ {<<s, tries>>}
            /\ session_count' = SaturatingDec(session_count)
       ELSE /\ closing' = (closing \ {<<s, tries>>}) \cup {<<s, tries + 1>>}
            /\ UNCHANGED session_count
    /\ UNCHANGED <<max_sessions, sessions, is_closed, requesting, returning,
                   req_pc, req_sender, req_tries, ret_pc, created, expired,
                   caller, reply, sender_dropped, held, delivered,
                   txVars, restVars>>

(***************************************************************************)
(* A caller that goes away inside get(): the future of get() is dropped    *)
(* while it awaits receiver.recv(), which drops the receiver and closes    *)
(* the bounded(1) reply channel.                                           *)
(***************************************************************************)
\* the future of get() is dropped before a session arrived
GetDropped(c) ==
    /\ caller[c] = "waiting"
    /\ reply[c] = NoSession
    /\ caller' = [caller EXCEPT ![c] = "gone"]
    /\ UNCHANGED <<max_sessions, sessions, session_count, is_closed, requesting, returning,
                   req_pc, req_sender, req_tries, ret_pc, closing,
                   created, expired, reply, sender_dropped, held, delivered,
                   txVars, restVars>>

\* the request task is about to hand a valid session to a closed reply channel
ProvidesToClosed ==
    /\ req_pc = "loop"
    /\ caller[req_sender] = "gone"
    /\ PopBackSession(sessions) # NoSession
    /\ IsValid(PopBackSession(sessions))

\* one iteration of the inner `loop` in every other case
ReqLoopOpen == ~ProvidesToClosed /\ ReqLoop

\* try_send_session of SessionPool (session_pool.rs) when try_send fails: the
\* session is taken out of the error and pushed at the front of the idle queue
TrySendSessionClosed(ss, session) == PushFront(ss, session)

\* provide_session when try_send fails with Closed: the error, and the
\* session inside it, is logged and dropped; the idle queue stays as the
\* pop_back left it
ProvideSessionClosed(ss, session) == ss

\* one iteration of the inner `loop`: a valid session is popped and
\* provide_session finds the reply channel closed
ReqLoopClosed ==
    /\ ProvidesToClosed
    /\ sessions' = ProvideSessionClosed(PopBackRest(sessions), PopBackSession(sessions))
    /\ delivered' = IF PopBackSession(sessions) \in SeqElems(sessions')
                    THEN delivered
                    ELSE Forget(delivered, PopBackSession(sessions))
    /\ req_pc' = "recv"
    /\ req_sender' = NoCaller
    /\ UNCHANGED <<max_sessions, session_count, is_closed, requesting, returning,
                   req_tries, ret_pc, closing, created, expired,
                   caller, reply, sender_dropped, held,
                   txVars, restVars>>

\* the pool with callers that may go away while they wait
AbandonNext ==
    \/ \E c \in Callers : Get(c)
    \/ \E c \in Callers : GetDropped(c)
    \/ \E c \in Callers : GetReceive(c)
    \/ \E c \in Callers : GiveBack(c)
    \/ ReqRecv
    \/ ReqLoopOpen
    \/ ReqLoopClosed
    \/ RefillOk
    \/ RetRecv

(***************************************************************************)
(* QldbClient::transaction (client.rs 120-124) on a session it got from    *)
(* the pool: QLDBTransaction::new sends start-transaction.                 *)
(***************************************************************************)
\* the results of get_transaction_id
StartResults == {"Ok", "SendCommandError", "QLDBReturnedEmptyTransaction"}

\* mutant of DroppedSession: the session of the failed transaction is sent
\* on the returning channel
DroppedSessionReturned(q, session) == Append(q, session)

\* `get_transaction_id(&client, session).await?`: on Err the function returns
\* and the session it was given is dropped; the returning channel is not used
DroppedSession(q, session) == q

\* QLDBTransaction::new on the session that get() returned to caller c, the
\* server answering start-transaction with r
TransactionNew(c, r) ==
    /\ caller[c] = "holding"
    /\ ret' = [res |-> r, v |-> held[c]]
    /\ IF r = "Ok"
       THEN /\ caller' = [caller EXCEPT ![c] = "transaction"]
            /\ UNCHANGED <<held, returning, delivered>>
       ELSE /\ caller' = [caller EXCEPT ![c] = "idle"]
            /\ held' = [held EXCEPT ![c] = NoSession]
            /\ returning' = DroppedSession(returning, held[c])
            /\ delivered' = IF held[c] \in SeqElems(returning')
                            THEN delivered
                            ELSE Forget(delivered, held[c])
    /\ UNCHANGED <<max_sessions, sessions, session_count, is_closed, requesting,
                   req_pc, req_sender, req_tries, ret_pc, closing,
                   created, expired, reply, sender_dropped,
                   txVars, arg, given_back, spVars>>

\* tasks calling QldbClient::transaction on a ThreadedSessionPool
StartNext ==
    \/ \E c \in Callers : Get(c)
    \/ \E c \in Callers : GetReceive(c)
    \/ \E c \in Callers, r \in StartResults : TransactionNew(c, r)
    \/ ReqRecv
    \/ ReqLoop
    \/ RefillOk

(***************************************************************************)
(* SpawnerSessionPool (session_pool_spawner.rs) with the tasks of          *)
(* agnostic_async_pool_multithread.rs.  get, give_back, close and the      *)
(* receiver task are those of ThreadedSessionPool with a Mutex in place of *)
(* the RefCell; the tasks run on the threads of the caller's runtime, so   *)
(* none waits for another to reach an await.                               *)
(***************************************************************************)
\* returning_task (agnostic_async_pool_multithread.rs 75-114): one session
\* received; after close_session of an invalid session the task `break`s
ReturningTask ==
    /\ ret_pc = "recv"
    /\ returning # <<>>
    /\ returning' = Tail(returning)
    /\ LET session == Head(returning)
       IN  IF is_closed
           THEN /\ ret_pc' = "done"
                /\ delivered' = Forget(delivered, session)
                /\ UNCHANGED <<sessions, closing>>
           ELSE IF ~IsValid(session)
           THEN /\ closing' = closing \cup {<<session, 0>>}
                /\ delivered' = Forget(delivered, session)
                /\ ret_pc' = "done"
                /\ UNCHANGED sessions
           ELSE /\ sessions' = PushFront(sessions, session)
                /\ UNCHANGED <<closing, ret_pc, delivered>>
    /\ UNCHANGED <<max_sessions, session_count, is_closed, requesting,
                   req_pc, req_sender, req_tries, created, expired,
                   caller, reply, sender_dropped, held,
                   txVars, restVars>>

\* close_session (agnostic_async_pool_multithread.rs 116-145): the spawned
\* task, qldb_close_session succeeded
SpawnedCloseSession(s) ==
    /\ <<s, 0>> \in closing
    /\ closing' = closing \ {<<s, 0>>}
    /\ session_count' = SaturatingDec(session_count)
    /\ UNCHANGED <<max_sessions, sessions, is_closed, requesting, returning,
                   req_pc, req_sender, req_tries, ret_pc, created, expired,
                   caller, reply, sender_dropped, held, delivered,
                   txVars, restVars>>

SpawnerNext ==
    \/ \E c \in Callers : Get(c)
    \/ \E c \in Callers : GetReceive(c)
    \/ \E c \in Callers : GiveBack(c)
    \/ Close
    \/ \E s \in SessionIds : Expire(s)
    \/ ReqRecv
    \/ ReqLoop
    \/ RefillOk
    \/ ReturningTask
    \/ \E s \in SessionIds : SpawnedCloseSession(s)

PoolNext ==
    \/ \E c \in Callers : Get(c)
    \/ \E c \in Callers : GetReceive(c)
    \/ \E c \in Callers : GetFail(c)
    \/ \E c \in Callers : GiveBack(c)
    \/ Close
    \/ \E s \in SessionIds : Expire(s)
    \/ ReqRecv
    \/ ReqLoop
    \/ RefillOk
    \/ \E r \in BOOLEAN : RefillFail(r)
    \/ RetRecv
    \/ \E s \in SessionIds, t \in 0..MaxTries : EndSessionOk(s, t)
    \/ \E s \in SessionIds, t \in 0..MaxTries : EndSessionFail(s, t)

(***************************************************************************)
(* The commit digest (transaction.rs 30, 140-151).  IonHash with SHA-256   *)
(* is modelled by an integer hash of small width: H mixes both halves of   *)
(* its input, Dot hashes the two digests concatenated smaller first.       *)
(***************************************************************************)
Min(a, b) == IF a <= b THEN a ELSE b

Max(a, b) == IF a <= b THEN b ELSE a

\* IonHash::from_ion_value::<Sha256>: the hash of one value
H(x) ==
    LET lo == x % HashMod
        hi == x \div HashMod
    IN  (lo * lo + 3 * hi * hi + lo * hi + 7 * lo + 11 * hi + 5) % HashMod

\* IonHash::dot
Dot(a, b) == H(Min(a, b) * HashMod + Max(a, b))

\* IonHash::add_ion_value
AddIonValue(h, v) == Dot(h, H(v))

\* `for param in params { hasher.add_ion_value(param) }`
RECURSIVE AddParams(_, _)
AddParams(h, ps) ==
    IF ps = <<>> THEN h ELSE AddParams(AddIonValue(h, Head(ps)), Tail(ps))

\* hash_query: the digest of the statement and its parameters
StatementDigest(stmt, ps) == AddParams(H(stmt), ps)

\* mutant of HashQuery: the session token is folded in as well
HashQueryWithSession(t, stmt, ps) ==
    Dot(hasher[t], Dot(StatementDigest(stmt, ps), H(tx_session[t])))

\* hash_query: self.hasher.lock().await.dot(hasher)
HashQuery(t, stmt, ps) == Dot(hasher[t], StatementDigest(stmt, ps))

(***************************************************************************)
(* Init: transactions as QLDBTransaction::new leaves them, no builder yet. *)
(***************************************************************************)
NoBuilder ==
    [state |-> "none", statement |-> 0, params |-> <<>>, auto_rollback |-> FALSE,
     is_executed |-> FALSE, next_page |-> NoToken, is_first_page |-> TRUE,
     exec_sent |-> 0, folds |-> 0, total |-> 0, got |-> <<>>, fetches |-> 0]

IdleProc ==
    [pc |-> "idle", call |-> "none", res |-> "none", digest |-> 0,
     statement |-> 0, params |-> <<>>, noop |-> FALSE]

NoWire == [commits |-> 0, aborts |-> 0, statements |-> <<>>, commit_digest |-> 0]

TxStart ==
    /\ tx_session = [t \in Txs |-> 100 + t]
    /\ completed = [t \in Txs |-> FALSE]
    /\ hasher = [t \in Txs |-> H(transaction_id[t])]
    /\ qb = [p \in Procs |-> NoBuilder]
    /\ proc = [p \in Procs |-> IdleProc]
    /\ within = [p \in Procs |-> [pc |-> "none", closure |-> "none", result |-> "none"]]
    /\ wire = [t \in Txs |-> NoWire]
    /\ completed_by = [t \in Txs |-> "none"]
    /\ commit_failed = [t \in Txs |-> FALSE]
    /\ queries = [t \in Txs |-> 0]

\* the transaction part while only the pool runs: no transaction exists
TxIdle ==
    /\ tx_of = <<>>
    /\ transaction_id = <<>>
    /\ tx_session = <<>>
    /\ auto_rollback = <<>>
    /\ completed = <<>>
    /\ hasher = <<>>
    /\ qb = <<>>
    /\ proc = <<>>
    /\ within = <<>>
    /\ wire = <<>>
    /\ completed_by = <<>>
    /\ commit_failed = <<>>
    /\ queries = <<>>

\* every process holds a clone of transaction 1
TxInit ==
    /\ tx_of = [p \in Procs |-> 1]
    /\ transaction_id = [t \in Txs |-> 1]
    /\ auto_rollback \in {[t \in Txs |-> b] : b \in BOOLEAN}
    /\ TxStart

\* every process has a transaction of its own; the ids are equal or distinct
DigestInit ==
    /\ tx_of = [p \in Procs |-> p]
    /\ transaction_id \in {[t \in Txs |-> 1], [t \in Txs |-> t]}
    /\ auto_rollback = [t \in Txs |-> FALSE]
    /\ TxStart

(***************************************************************************)
(* QLDBTransaction: complete, is_completed, commit, rollback.              *)
(***************************************************************************)
\* mutant of IsCompleted: a closed pool counts as a completed transaction
IsCompletedOrClosed(t) == completed[t] \/ is_closed

\* mutant of IsCompleted: the check is missing
IsCompletedNever(t) == FALSE

\* QLDBTransaction::is_completed
IsCompleted(t) == completed[t]

\* mutant of CompleteStores: `*is_completed = true` is missing
CompleteKeeps(b) == b

\* QLDBTransaction::complete: the value it leaves in `completed`
CompleteStores(b) == TRUE

\* mutant of CompleteReturns: complete() always answers "not completed yet"
CompleteReturnsFalse(b) == FALSE

\* QLDBTransaction::complete: `if *is_completed { true } else { ...; false }`
CompleteReturns(b) == b

\* a call of process p returns r
Returned(p, c, r, n) ==
    [IdleProc EXCEPT !.call = c, !.res = r, !.noop = n]

\* a call of process p goes on to its next await
Moved(p, c, pc) ==
    [proc[p] EXCEPT !.pc = pc, !.call = c, !.res = "none", !.noop = FALSE]

\* commit(), first step: `if self.complete().await { return Ok(()) }`
CommitBegin(p, c) ==
    /\ proc[p].pc = "idle"
    /\ LET t == tx_of[p]
       IN  IF CompleteReturns(completed[t])
           THEN /\ proc' = [proc EXCEPT ![p] = Returned(p, c, "Ok", TRUE)]
                /\ UNCHANGED <<completed, completed_by>>
           ELSE /\ completed' = [completed EXCEPT ![t] = CompleteStores(@)]
                /\ completed_by' = [completed_by EXCEPT ![t] = "commit"]
                /\ proc' = [proc EXCEPT ![p] = Moved(p, c, "commit_digest")]
    /\ UNCHANGED <<cfgVars, restVars, hasher, qb, wire, commit_failed, queries, poolVars>>

\* rollback(), first step: `if self.complete().await { return Ok(()) }`
RollbackBegin(p, c) ==
    /\ proc[p].pc = "idle"
    /\ LET t == tx_of[p]
       IN  IF CompleteReturns(completed[t])
           THEN /\ proc' = [proc EXCEPT ![p] = Returned(p, c, "Ok", TRUE)]
                /\ UNCHANGED <<completed, completed_by>>
           ELSE /\ completed' = [completed EXCEPT ![t] = CompleteStores(@)]
                /\ completed_by' = [completed_by EXCEPT ![t] = "rollback"]
                /\ proc' = [proc EXCEPT ![p] = Moved(p, c, "rollback_send")]
    /\ UNCHANGED <<cfgVars, restVars, hasher, qb, wire, commit_failed, queries, poolVars>>

\* QLDBTransaction::commit called on a handle; it is pub(crate), the closure
\* of a transaction_within cannot call it, and the transaction behind
\* read_query is handed out only inside its builder
Commit(p) ==
    /\ ~auto_rollback[tx_of[p]]
    /\ \A q \in Procs : tx_of[q] = tx_of[p] => within[q].pc = "none"
    /\ CommitBegin(p, "commit")
    /\ UNCHANGED within

\* QLDBTransaction::rollback called on a handle (also from inside a closure)
Rollback(p) ==
    /\ within[p].pc \in {"none", "closure"}
    /\ RollbackBegin(p, "rollback")
    /\ UNCHANGED within

\* commit(): `self.hasher.lock().await.get().to_owned()`
CommitDigest(p) ==
    /\ proc[p].pc = "commit_digest"
    /\ proc' = [proc EXCEPT ![p] = [@ EXCEPT !.pc = "commit_send",
                                             !.digest = hasher[tx_of[p]]]]
    /\ UNCHANGED <<cfgVars, restVars, completed, hasher, qb, within, wire, completed_by,
                   commit_failed, queries, poolVars>>

\* commit(): the commit-transaction command and its answer
CommitSend(p, ok) ==
    /\ proc[p].pc = "commit_send"
    /\ LET t == tx_of[p]
       IN  /\ wire' = [wire EXCEPT ![t] = [@ EXCEPT !.commits = Bump(@),
                                                    !.commit_digest = proc[p].digest]]
           /\ commit_failed' = [commit_failed EXCEPT ![t] = @ \/ ~ok]
           /\ proc' = [proc EXCEPT ![p] =
                         Returned(p, proc[p].call, IF ok THEN "Ok" ELSE "ErrCommit", FALSE)]
    /\ UNCHANGED <<cfgVars, restVars, completed, hasher, qb, within, completed_by, queries, poolVars>>

\* commit(): the commit-transaction command is rejected with an OCC conflict;
\* `result?` wraps the service error in QldbError::SendCommandError
CommitSendOcc(p) ==
    /\ proc[p].pc = "commit_send"
    /\ LET t == tx_of[p]
       IN  /\ wire' = [wire EXCEPT ![t] = [@ EXCEPT !.commits = Bump(@),
                                                    !.commit_digest = proc[p].digest]]
           /\ commit_failed' = [commit_failed EXCEPT ![t] = TRUE]
           /\ proc' = [proc EXCEPT ![p] = Returned(p, proc[p].call, "OccConflict", FALSE)]
    /\ UNCHANGED <<cfgVars, restVars, completed, hasher, qb, within, completed_by, queries, poolVars>>

\* rollback(): the abort-transaction command and its answer
RollbackSend(p, ok) ==
    /\ proc[p].pc = "rollback_send"
    /\ LET t == tx_of[p]
       IN  /\ wire' = [wire EXCEPT ![t] = [@ EXCEPT !.aborts = Bump(@)]]
           /\ proc' = [proc EXCEPT ![p] =
                         Returned(p, proc[p].call, IF ok THEN "Ok" ELSE "ErrAbort", FALSE)]
    /\ UNCHANGED <<cfgVars, restVars, completed, hasher, qb, within, completed_by,
                   commit_failed, queries, poolVars>>

(***************************************************************************)
(* QueryBuilder and Cursor (query_builder.rs, cursor.rs).                  *)
(***************************************************************************)
ParamSeqs == UNION {[1..n -> ParamValues] : n \in 0..MaxParams}

\* a handle that can still be used by its process
Usable(p) == proc[p].pc = "idle" /\ within[p].pc \in {"none", "closure"}

\* mutant of NextToken: the cursor keeps the token it had
NextTokenKeeps(old, answered) == old

\* load_more: `self.next_page = next_page_token`
NextToken(old, answered) == answered

\* mutant of HasToken: load_more always finds a token
HasTokenAlways(b) == TRUE

\* load_more: `else if let Some(page) = &self.next_page`
HasToken(b) == b.next_page # NoToken

\* the page the server answers a fetch-page command with: a result of
\* `total` pages, the token being the number of pages that follow
PageOf(total, token) == total - token + 1

\* fetch-page commands sent for a cursor, counted up to MaxPages
CountFetch(n) == IF n >= MaxPages THEN MaxPages ELSE n + 1

\* mutant of AlreadyExecuted: the is_executed check is missing
AlreadyExecutedNever(b) == FALSE

\* `self.is_executed.load(Relaxed)`
AlreadyExecuted(b) == b.is_executed

\* mutant of AfterLoadMore: execute commits where it should roll back
AfterLoadMoreCommits(c, b, r, t) ==
    IF c = "load_more"
    THEN [pc |-> "idle", res |-> r, state |-> "cursor", flips |-> FALSE]
    ELSE IF r = "Page" /\ b.next_page # NoToken
    THEN [pc |-> "fetch_send", res |-> "none", state |-> "cursor", flips |-> FALSE]
    ELSE IF r \notin {"Page", "None"}
    THEN [pc |-> "idle", res |-> r, state |-> "consumed", flips |-> FALSE]
    ELSE IF c = "execute" /\ b.auto_rollback /\ ~CompleteReturns(completed[t])
    THEN [pc |-> "commit_digest", res |-> "none", state |-> "consumed", flips |-> TRUE]
    ELSE [pc |-> "idle", res |-> "Ok", state |-> "consumed", flips |-> FALSE]

\* mutant of AfterLoadMore: execute rolls back as soon as a page has arrived
AfterLoadMoreEarly(c, b, r, t) ==
    IF c = "load_more"
    THEN [pc |-> "idle", res |-> r, state |-> "cursor", flips |-> FALSE]
    ELSE IF r \notin {"Page", "None"}
    THEN [pc |-> "idle", res |-> r, state |-> "consumed", flips |-> FALSE]
    ELSE IF c = "execute" /\ b.auto_rollback /\ ~CompleteReturns(completed[t])
    THEN [pc |-> "rollback_send", res |-> "none", state |-> "consumed", flips |-> TRUE]
    ELSE IF r = "Page" /\ b.next_page # NoToken
    THEN [pc |-> "fetch_send", res |-> "none", state |-> "cursor", flips |-> FALSE]
    ELSE [pc |-> "idle", res |-> "Ok", state |-> "consumed", flips |-> FALSE]

\* what the caller of load_more does with its result r: load_more returns it,
\* load_all loops while a page token is left, execute rolls back at the end
\* when the builder was created with auto_rollback
AfterLoadMore(c, b, r, t) ==
    IF c = "load_more"
    THEN [pc |-> "idle", res |-> r, state |-> "cursor", flips |-> FALSE]
    ELSE IF r = "Page" /\ b.next_page # NoToken
    THEN [pc |-> "fetch_send", res |-> "none", state |-> "cursor", flips |-> FALSE]
    ELSE IF r \notin {"Page", "None"}
    THEN [pc |-> "idle", res |-> r, state |-> "consumed", flips |-> FALSE]
    ELSE IF c = "execute" /\ b.auto_rollback /\ ~CompleteReturns(completed[t])
    THEN [pc |-> "rollback_send", res |-> "none", state |-> "consumed", flips |-> TRUE]
    ELSE [pc |-> "idle", res |-> "Ok", state |-> "consumed", flips |-> FALSE]

\* a builder or cursor that was moved into a finished call
Consumed(b) ==
    [b EXCEPT !.state = "consumed", !.statement = 0, !.params = <<>>,
              !.auto_rollback = FALSE, !.is_executed = FALSE]

\* load_more of call c has produced r and left the cursor as b
Settle(p, c, b, r) ==
    LET t == tx_of[p]
        o == AfterLoadMore(c, b, r, t)
    IN  /\ proc' = [proc EXCEPT ![p] = IF o.pc = "idle"
                                        THEN Returned(p, c, o.res, FALSE)
                                        ELSE Moved(p, c, o.pc)]
        /\ qb' = [qb EXCEPT ![p] = IF o.state = "consumed"
                                      THEN Consumed(b)
                                      ELSE [b EXCEPT !.state = o.state]]
        /\ completed' = IF o.flips THEN [completed EXCEPT ![t] = CompleteStores(@)]
                        ELSE completed
        /\ completed_by' = IF o.flips THEN [completed_by EXCEPT ![t] = "rollback"]
                           ELSE completed_by

\* Cursor::load_more up to its first await, with the checks of execute_statement
LoadMoreStart(p, c, b) ==
    LET t == tx_of[p]
    IN  IF b.is_first_page
        THEN IF IsCompleted(t)
             THEN Settle(p, c, b, "TransactionCompleted")
             ELSE IF AlreadyExecuted(b)
             THEN Settle(p, c, b, "QueryAlreadyExecuted")
             ELSE /\ proc' = [proc EXCEPT ![p] = Moved(p, c, "exec_hash")]
                  /\ qb' = [qb EXCEPT ![p] = b]
                  /\ UNCHANGED <<completed, completed_by>>
        ELSE IF HasToken(b)
        THEN /\ proc' = [proc EXCEPT ![p] = Moved(p, c, "fetch_send")]
             /\ qb' = [qb EXCEPT ![p] = b]
             /\ UNCHANGED <<completed, completed_by>>
        ELSE Settle(p, c, b, "None")

\* QueryBuilder::new
NewBuilder(p, s) ==
    /\ Usable(p)
    /\ queries[tx_of[p]] < MaxStatements
    /\ queries' = [queries EXCEPT ![tx_of[p]] = @ + 1]
    /\ qb' = [qb EXCEPT ![p] = [NoBuilder EXCEPT !.state = "builder",
                                                 !.statement = s,
                                                 !.auto_rollback = auto_rollback[tx_of[p]]]]
    /\ UNCHANGED <<cfgVars, completed, hasher, proc, within, wire, completed_by,
                   commit_failed, poolVars>>

\* QLDBTransaction::query(statement): a new builder
Query(p, s) == NewBuilder(p, s) /\ UNCHANGED restVars

\* a new builder, with the history of its .param() calls started
QueryNoted(p, s) ==
    /\ NewBuilder(p, s)
    /\ arg' = <<>>
    /\ UNCHANGED <<ret, given_back, spVars>>

\* mutant of PushParam: the parameter is inserted before the earlier ones
PushParamFirst(params, param) == <<param>> \o params

\* self.params.push(param.into())
PushParam(params, param) == Append(params, param)

\* QueryBuilder::param: the builder with one more parameter
AddParam(p, v) ==
    /\ Usable(p)
    /\ qb[p].state = "builder"
    /\ Len(qb[p].params) < MaxParams
    /\ qb' = [qb EXCEPT ![p] = [@ EXCEPT !.params = PushParam(@, v)]]
    /\ UNCHANGED <<cfgVars, completed, hasher, proc, within, wire, completed_by,
                   commit_failed, queries, poolVars>>

\* QueryBuilder::param
Param(p, v) == AddParam(p, v) /\ UNCHANGED restVars

\* QueryBuilder::param, with the call added to the history of the builder
ParamNoted(p, v) ==
    /\ AddParam(p, v)
    /\ arg' = Append(arg, v)
    /\ UNCHANGED <<ret, given_back, spVars>>

\* QueryBuilder::get_cursor
GetCursor(p) ==
    /\ Usable(p)
    /\ qb[p].state = "builder"
    /\ IF AlreadyExecuted(qb[p])
       THEN /\ proc' = [proc EXCEPT ![p] = Returned(p, "get_cursor", "QueryAlreadyExecuted", FALSE)]
            /\ qb' = [qb EXCEPT ![p] = Consumed(@)]
       ELSE /\ proc' = [proc EXCEPT ![p] = Returned(p, "get_cursor", "Ok", FALSE)]
            /\ qb' = [qb EXCEPT ![p] = [@ EXCEPT !.state = "cursor",
                                                 !.next_page = NoToken,
                                                 !.is_first_page = TRUE]]
    /\ UNCHANGED <<cfgVars, restVars, completed, hasher, within, wire, completed_by,
                   commit_failed, queries, poolVars>>

\* Cursor::load_more
LoadMore(p) ==
    /\ Usable(p)
    /\ qb[p].state = "cursor"
    /\ LoadMoreStart(p, "load_more", qb[p])
    /\ UNCHANGED <<cfgVars, restVars, hasher, within, wire, commit_failed, queries, poolVars>>

\* Cursor::load_all
LoadAll(p) ==
    /\ Usable(p)
    /\ qb[p].state = "cursor"
    /\ LoadMoreStart(p, "load_all", qb[p])
    /\ UNCHANGED <<cfgVars, restVars, hasher, within, wire, commit_failed, queries, poolVars>>

\* QueryBuilder::execute: get_cursor()?.load_all().await?, then the auto rollback
Execute(p) ==
    /\ Usable(p)
    /\ qb[p].state = "builder"
    /\ IF AlreadyExecuted(qb[p])
       THEN /\ proc' = [proc EXCEPT ![p] = Returned(p, "execute", "QueryAlreadyExecuted", FALSE)]
            /\ qb' = [qb EXCEPT ![p] = Consumed(@)]
            /\ UNCHANGED <<completed, completed_by>>
       ELSE LoadMoreStart(p, "execute", [qb[p] EXCEPT !.next_page = NoToken,
                                                      !.is_first_page = TRUE])
    /\ UNCHANGED <<cfgVars, restVars, hasher, within, wire, commit_failed, queries, poolVars>>

\* QLDBTransaction::query(statement, params) of transaction.rs: checks
\* is_completed, then hashes and sends
TxQuery(p, s, ps) ==
    /\ Usable(p)
    /\ queries[tx_of[p]] < MaxStatements
    /\ queries' = [queries EXCEPT ![tx_of[p]] = @ + 1]
    /\ IF IsCompleted(tx_of[p])
       THEN proc' = [proc EXCEPT ![p] = Returned(p, "query", "TransactionCompleted", FALSE)]
       ELSE proc' = [proc EXCEPT ![p] = [Moved(p, "query", "exec_hash")
                                           EXCEPT !.statement = s, !.params = ps]]
    /\ UNCHANGED <<cfgVars, restVars, completed, hasher, qb, within, wire, completed_by,
                   commit_failed, poolVars>>

\* mutant of HashedParams: the parameters are moved out of the builder before
\* hash_query reads them
HashedParamsMoved(b) == <<>>

\* hash_query(&self.statement, &self.params): the parameters it reads
HashedParams(b) == b.params

\* execute_statement: hash_query folds the statement into the digest, the
\* parameters are moved out of the builder, is_executed is set
FoldStatement(p) ==
    /\ proc[p].pc = "exec_hash"
    /\ LET t == tx_of[p]
           b == qb[p]
       IN  IF proc[p].call = "query"
           THEN /\ hasher' = [hasher EXCEPT ![t] = HashQuery(t, proc[p].statement, proc[p].params)]
                /\ proc' = [proc EXCEPT ![p] = [@ EXCEPT !.pc = "exec_send"]]
                /\ UNCHANGED qb
           ELSE /\ hasher' = [hasher EXCEPT ![t] = HashQuery(t, b.statement, HashedParams(b))]
                /\ proc' = [proc EXCEPT ![p] = [@ EXCEPT !.pc = "exec_send",
                                                         !.statement = b.statement,
                                                         !.params = b.params]]
                /\ qb' = [qb EXCEPT ![p] = [@ EXCEPT !.params = <<>>,
                                                     !.is_executed = TRUE,
                                                     !.folds = Bump(@)]]
    /\ UNCHANGED <<cfgVars, completed, within, wire, completed_by, commit_failed,
                   queries, poolVars>>

\* execute_statement up to send_command
ExecHash(p) == FoldStatement(p) /\ UNCHANGED restVars

\* execute_statement up to send_command, the fold added to the history of
\* the folds of the transaction
ExecHashNoted(p) ==
    /\ FoldStatement(p)
    /\ arg' = Append(arg, <<qb[p].statement, HashedParams(qb[p])>>)
    /\ UNCHANGED <<ret, given_back, spVars>>

\* execute_statement: the execute-statement command and its answer; token is
\* the number of pages that follow the first one
SendStatement(p, ok, token) ==
    /\ proc[p].pc = "exec_send"
    /\ ~ok => token = NoToken
    /\ LET t == tx_of[p]
           c == proc[p].call
           b == [qb[p] EXCEPT !.exec_sent = Bump(@)]
       IN  /\ wire' = [wire EXCEPT ![t] =
                         [@ EXCEPT !.statements = Append(@, <<proc[p].statement, proc[p].params>>)]]
           /\ IF c = "query"
              THEN /\ token = NoToken
                   /\ proc' = [proc EXCEPT ![p] =
                                 Returned(p, c, IF ok THEN "Ok" ELSE "ErrExecute", FALSE)]
                   /\ UNCHANGED <<qb, completed, completed_by>>
              ELSE IF ok
              THEN Settle(p, c, [b EXCEPT !.is_first_page = FALSE,
                                          !.next_page = NextToken(@, token),
                                          !.total = token + 1,
                                          !.got = <<1>>], "Page")
              ELSE Settle(p, c, b, "ErrExecute")
    /\ UNCHANGED <<cfgVars, hasher, within, commit_failed, queries, poolVars>>

\* execute_statement from send_command on
ExecSend(p, ok, token) == SendStatement(p, ok, token) /\ UNCHANGED restVars

\* execute_statement from send_command on, the statement added to the
\* history of the statements of the transaction that the server answered
ExecSendNoted(p, ok, token) ==
    /\ SendStatement(p, ok, token)
    /\ arg' = IF ok THEN Append(arg, <<proc[p].statement, proc[p].params>>) ELSE arg
    /\ UNCHANGED <<ret, given_back, spVars>>

\* execute_get_page: the fetch-page command with the cursor's token, and the
\* server's answer: the page the token stands for and the token after it
FetchSend(p, ok) ==
    /\ proc[p].pc = "fetch_send"
    /\ Len(qb[p].got) <= MaxPages
    /\ LET b == [qb[p] EXCEPT !.fetches = CountFetch(@)]
       IN  IF ok
           THEN Settle(p, proc[p].call,
                       [b EXCEPT !.next_page = NextToken(@, b.next_page - 1),
                                 !.got = Append(@, PageOf(b.total, b.next_page))],
                       "Page")
           ELSE Settle(p, proc[p].call, b, "ErrFetch")
    /\ UNCHANGED <<cfgVars, restVars, hasher, within, wire, commit_failed, queries, poolVars>>

(***************************************************************************)
(* QLDBClient::transaction_within (client.rs 144-164).                     *)
(***************************************************************************)
\* mutant of Silent: every error of the completion is swallowed
SilentAll(r) == "Ok"

\* silent_commit / silent_rollback: the "already in the other terminal
\* state" errors become Ok, every other result is passed on
Silent(r) ==
    IF r \in {"TransactionAlreadyCommitted", "TransactionAlreadyRollback"} THEN "Ok" ELSE r

\* transaction_within: the transaction is created and handed to the closure
TransactionWithin(p) ==
    /\ within[p].pc = "none"
    /\ LET t == tx_of[p]
       IN  /\ ~completed[t]
           /\ wire[t] = NoWire
           /\ queries[t] = 0
           /\ \A q \in Procs : tx_of[q] = t => proc[q] = IdleProc /\ within[q].pc = "none"
    /\ within' = [within EXCEPT ![p] = [@ EXCEPT !.pc = "closure"]]
    /\ UNCHANGED <<cfgVars, restVars, completed, hasher, qb, proc, wire, completed_by,
                   commit_failed, queries, poolVars>>

\* the closure returns r: `Ok(result) => transaction.silent_commit()`,
\* `Err(error) => transaction.silent_rollback()`
ClosureReturn(p, r) ==
    /\ within[p].pc = "closure"
    /\ within' = [within EXCEPT ![p] = [@ EXCEPT !.pc = "auto", !.closure = r]]
    /\ IF r = "Ok"
       THEN CommitBegin(p, "silent_commit")
       ELSE RollbackBegin(p, "silent_rollback")

\* the `?` after the silent call, then `Ok(result)` or `Err(error)`
WithinReturn(p) ==
    /\ within[p].pc = "auto"
    /\ proc[p].pc = "idle"
    /\ within' = [within EXCEPT ![p] =
                    [@ EXCEPT !.pc = "done",
                              !.result = IF Silent(proc[p].res) # "Ok"
                                         THEN Silent(proc[p].res)
                                         ELSE within[p].closure]]
    /\ UNCHANGED <<cfgVars, restVars, completed, hasher, qb, proc, wire, completed_by,
                   commit_failed, queries, poolVars>>

\* QldbClient::close called by a task that holds a transaction:
\* `self.session_pool.close().await` stores true in is_closed
ClientClose(p) ==
    /\ Usable(p)
    /\ is_closed' = TRUE
    /\ proc' = [proc EXCEPT ![p] = Returned(p, "close", "Ok", FALSE)]
    /\ UNCHANGED <<max_sessions, sessions, session_count, requesting, returning,
                   req_pc, req_sender, req_tries, ret_pc, closing,
                   created, expired,
                   caller, reply, sender_dropped, held, delivered,
                   cfgVars, restVars, completed, hasher, qb, within, wire, completed_by,
                   commit_failed, queries>>

\* the process that works alone where tasks do not share a transaction
Solo == {1}

\* the statement the clones of one transaction send
CloneStatements == {11}

\* clones of one transaction in concurrent tasks, and transaction_within
TxNext ==
    \/ \E p \in Procs : Commit(p)
    \/ \E p \in Procs : Rollback(p)
    \/ \E p \in Procs : CommitDigest(p)
    \/ \E p \in Procs, ok \in BOOLEAN : CommitSend(p, ok)
    \/ \E p \in Procs, ok \in BOOLEAN : RollbackSend(p, ok)
    \/ \E p \in Procs, s \in CloneStatements : Query(p, s)
    \/ \E p \in Procs : Execute(p)
    \/ \E p \in Procs, s \in CloneStatements : TxQuery(p, s, <<>>)
    \/ \E p \in Procs : ExecHash(p)
    \/ \E p \in Procs, ok \in BOOLEAN : ExecSend(p, ok, NoToken)
    \/ \E p \in Procs : TransactionWithin(p)
    \/ \E p \in Procs, r \in {"Ok", "ClosureError"} : ClosureReturn(p, r)
    \/ \E p \in Procs : WithinReturn(p)

\* transactions whose sessions came from a pool that is otherwise at rest
ClonesInit == PoolInit /\ TxInit /\ RestIdle

SpecTx == ClonesInit /\ [][TxNext]_vars

\* one task building, paging and executing queries
CursorNext ==
    \/ \E p \in Solo, s \in Statements : Query(p, s)
    \/ \E p \in Solo : GetCursor(p)
    \/ \E p \in Solo : LoadMore(p)
    \/ \E p \in Solo : LoadAll(p)
    \/ \E p \in Solo : Execute(p)
    \/ \E p \in Solo : ExecHash(p)
    \/ \E p \in Solo, ok \in BOOLEAN, token \in 0..(MaxPages - 1) : ExecSend(p, ok, token)
    \/ \E p \in Solo, ok \in BOOLEAN : FetchSend(p, ok)
    \/ \E p \in Solo : Rollback(p)
    \/ \E p \in Solo, ok \in BOOLEAN : RollbackSend(p, ok)
    \/ \E p \in Solo : Commit(p)
    \/ \E p \in Solo : CommitDigest(p)
    \/ \E p \in Solo, ok \in BOOLEAN : CommitSend(p, ok)

SpecCursor == ClonesInit /\ [][CursorNext]_vars

\* one task that works on its transaction and closes the pool at some point
FrameNext ==
    \/ \E p \in Solo : ClientClose(p)
    \/ \E p \in Solo, s \in CloneStatements : Query(p, s)
    \/ \E p \in Solo : GetCursor(p)
    \/ \E p \in Solo : LoadMore(p)
    \/ \E p \in Solo : LoadAll(p)
    \/ \E p \in Solo : Execute(p)
    \/ \E p \in Solo : ExecHash(p)
    \/ \E p \in Solo, ok \in BOOLEAN, token \in 0..(MaxPages - 1) : ExecSend(p, ok, token)
    \/ \E p \in Solo, ok \in BOOLEAN : FetchSend(p, ok)
    \/ \E p \in Solo : Rollback(p)
    \/ \E p \in Solo, ok \in BOOLEAN : RollbackSend(p, ok)
    \/ \E p \in Solo : Commit(p)
    \/ \E p \in Solo : CommitDigest(p)
    \/ \E p \in Solo, ok \in BOOLEAN : CommitSend(p, ok)

SpecFrame == ClonesInit /\ [][FrameNext]_vars

\* one task per transaction: statements with parameters, then the commit
DigestNext ==
    \/ \E p \in Solo, s \in Statements : Query(p, s)
    \/ \E p \in Solo, v \in ParamValues : Param(p, v)
    \/ \E p \in Solo : Execute(p)
    \/ \E p \in Solo, s \in Statements, ps \in ParamSeqs : TxQuery(p, s, ps)
    \/ \E p \in Solo : ExecHash(p)
    \/ \E p \in Solo, ok \in BOOLEAN : ExecSend(p, ok, NoToken)
    \/ \E p \in Solo : Commit(p)
    \/ \E p \in Solo : CommitDigest(p)
    \/ \E p \in Solo, ok \in BOOLEAN : CommitSend(p, ok)

SoloInit == PoolInit /\ DigestInit /\ RestIdle

\* one task building statements with parameters and executing them, the
\* .param() calls of the current builder recorded in `arg`
ParamsNext ==
    \/ \E p \in Solo, s \in Statements : QueryNoted(p, s)
    \/ \E p \in Solo, v \in ParamValues : ParamNoted(p, v)
    \/ \E p \in Solo : Execute(p)
    \/ \E p \in Solo : ExecHash(p)
    \/ \E p \in Solo, ok \in BOOLEAN : ExecSend(p, ok, NoToken)
    \/ \E p \in Solo : Commit(p)
    \/ \E p \in Solo : CommitDigest(p)
    \/ \E p \in Solo, ok \in BOOLEAN : CommitSend(p, ok)

SpecParams == SoloInit /\ [][ParamsNext]_vars

\* the statements of the builders that task p creates
StatementsOf(p) == {10 * p + 1, 10 * p + 2}

\* the parameter value the builders of these tasks are given
OrderParams == {21}

\* the tasks holding clones of one transaction, each executing builders of
\* its own statements; the folds are recorded in `arg` in the order they happen
OrderNext ==
    \/ \E p \in Procs : \E s \in StatementsOf(p) : Query(p, s)
    \/ \E p \in Procs, v \in OrderParams : Param(p, v)
    \/ \E p \in Procs : Execute(p)
    \/ \E p \in Procs : ExecHashNoted(p)
    \/ \E p \in Procs, ok \in BOOLEAN : ExecSend(p, ok, NoToken)

\* clones of one transaction made by QldbClient::transaction
OrderInit ==
    /\ PoolInit
    /\ TxInit
    /\ RestIdle
    /\ auto_rollback = [t \in Txs |-> FALSE]

SpecOrder == OrderInit /\ [][OrderNext]_vars

\* one task executing statements, some of which fail on the way to the
\* server, and committing; the statements that succeeded are recorded in `arg`
AnsweredNext ==
    \/ \E p \in Solo, s \in Statements : Query(p, s)
    \/ \E p \in Solo, v \in ParamValues : Param(p, v)
    \/ \E p \in Solo : Execute(p)
    \/ \E p \in Solo, s \in Statements, ps \in ParamSeqs : TxQuery(p, s, ps)
    \/ \E p \in Solo : ExecHash(p)
    \/ \E p \in Solo, ok \in BOOLEAN : ExecSendNoted(p, ok, NoToken)
    \/ \E p \in Solo : Commit(p)
    \/ \E p \in Solo : CommitDigest(p)
    \/ \E p \in Solo, ok \in BOOLEAN : CommitSend(p, ok)

SpecAnswered == SoloInit /\ [][AnsweredNext]_vars

\* the transaction behind read_query: its builders roll back automatically
ReadQueryInit ==
    /\ PoolInit
    /\ TxInit
    /\ RestIdle
    /\ auto_rollback = [t \in Txs |-> TRUE]

\* one task draining the result of a read_query builder through execute()
\* or through a cursor; the transaction is reachable only through the builder
DrainNext ==
    \/ \E p \in Solo, s \in Statements : Query(p, s)
    \/ \E p \in Solo : GetCursor(p)
    \/ \E p \in Solo : LoadMore(p)
    \/ \E p \in Solo : LoadAll(p)
    \/ \E p \in Solo : Execute(p)
    \/ \E p \in Solo : ExecHash(p)
    \/ \E p \in Solo, ok \in BOOLEAN, token \in 0..(MaxPages - 1) : ExecSend(p, ok, token)
    \/ \E p \in Solo, ok \in BOOLEAN : FetchSend(p, ok)
    \/ \E p \in Solo, ok \in BOOLEAN : RollbackSend(p, ok)

\* a call that has started runs to its end and the server answers every
\* command; the caller is free to stop calling
DrainFairness ==
    /\ \A p \in Solo : WF_vars(ExecHash(p))
    /\ \A p \in Solo : WF_vars(\E ok \in BOOLEAN, token \in 0..(MaxPages - 1) :
                                   ExecSend(p, ok, token))
    /\ \A p \in Solo : WF_vars(\E ok \in BOOLEAN : FetchSend(p, ok))
    /\ \A p \in Solo : WF_vars(\E ok \in BOOLEAN : RollbackSend(p, ok))

SpecDrain == ReadQueryInit /\ [][DrainNext]_vars /\ DrainFairness

SpecDigest == SoloInit /\ [][DigestNext]_vars

\* transaction_within run by concurrent tasks, each on a transaction of its
\* own, with a server that may reject a commit with an OCC conflict
OccNext ==
    \/ \E p \in Procs : TransactionWithin(p)
    \/ \E p \in Procs, s \in CloneStatements : TxQuery(p, s, <<>>)
    \/ \E p \in Procs : ExecHash(p)
    \/ \E p \in Procs, ok \in BOOLEAN : ExecSend(p, ok, NoToken)
    \/ \E p \in Procs : ClosureReturn(p, "Ok")
    \/ \E p \in Procs : CommitDigest(p)
    \/ \E p \in Procs, ok \in BOOLEAN : CommitSend(p, ok)
    \/ \E p \in Procs : CommitSendOcc(p)
    \/ \E p \in Procs : WithinReturn(p)

SpecOcc == SoloInit /\ [][OccNext]_vars

\* the pool alone: the transactions stay as constructed
Init == PoolInit /\ TxIdle /\ RestIdle

\* the pool with the get() calls told apart by the close() before them
CloseNext ==
    \/ \E c \in Callers : GetEarly(c)
    \/ \E c \in Callers : GetAfterClose(c)
    \/ \E c \in Callers : GetReceive(c)
    \/ \E c \in Callers : GetFail(c)
    \/ \E c \in Callers : GiveBack(c)
    \/ Close
    \/ \E s \in SessionIds : Expire(s)
    \/ ReqRecv
    \/ ReqLoop
    \/ RefillOk
    \/ \E r \in BOOLEAN : RefillFail(r)
    \/ RetRecv
    \/ \E s \in SessionIds, t \in 0..MaxTries : EndSessionOk(s, t)
    \/ \E s \in SessionIds, t \in 0..MaxTries : EndSessionFail(s, t)

SpecClose == Init /\ [][CloseNext]_vars

SpecPool == Init /\ [][PoolNext]_vars

\* ThreadedSessionPool with callers that abandon their get()
SpecAbandon == Init /\ [][AbandonNext]_vars

\* ThreadedSessionPool around its close(), with a server whose start-session
\* succeeds
ShutdownNext ==
    \/ \E c \in Callers : Get(c)
    \/ \E c \in Callers : GetReceive(c)
    \/ \E c \in Callers : GetFail(c)
    \/ \E c \in Callers : GiveBack(c)
    \/ Close
    \/ ReqRecv
    \/ ReqLoop
    \/ RefillOk
    \/ RetRecv

\* The executor thread runs every task that can run, the server answers
\* start-session, and a get() whose reply channel has a session or has lost
\* its sender returns.
ShutdownFairness ==
    /\ WF_vars(ReqRecv)
    /\ WF_vars(ReqLoop)
    /\ WF_vars(RefillOk)
    /\ WF_vars(RetRecv)
    /\ \A c \in Callers : WF_vars(GetReceive(c))
    /\ \A c \in Callers : WF_vars(GetFail(c))

SpecShutdown == Init /\ [][ShutdownNext]_vars /\ ShutdownFairness

\* QldbClient::transaction on a ThreadedSessionPool
SpecStart == Init /\ [][StartNext]_vars

\* SpawnerSessionPool with the multithread tasks
SpecSpawner == Init /\ [][SpawnerNext]_vars

\* The pool in front of a server whose start-session may fail any number of
\* times in a row: create_session runs to its retry cap.
RetryNext ==
    \/ \E c \in Callers : Get(c)
    \/ \E c \in Callers : GetReceive(c)
    \/ \E c \in Callers : GiveBack(c)
    \/ ReqRecv
    \/ ReqLoop
    \/ RefillOk
    \/ \E r \in BOOLEAN : CreateSessionFail(r)

SpecRetry == Init /\ [][RetryNext]_vars

\* The pool while it is open, with the order of the give_back calls noted.
ReuseNext ==
    \/ \E c \in Callers : Get(c)
    \/ \E c \in Callers : GetReceive(c)
    \/ \E c \in Callers : GiveBackNoted(c)
    \/ \E s \in SessionIds : Expire(s)
    \/ ReqRecv
    \/ ReqLoop
    \/ RefillOk
    \/ RetRecv
    \/ \E s \in SessionIds, t \in 0..MaxTries : EndSessionOk(s, t)

SpecReuse == Init /\ [][ReuseNext]_vars

(***************************************************************************)
(* QueryBuilder::count (query_builder.rs 166-176) on the values the server *)
(* returned for the statement.  An IonValue is a scalar or a struct; of a  *)
(* struct only the value under "_1" matters here.                          *)
(***************************************************************************)
Counts == {3, 4}

\* doc.get("_1") = None
NoValue == [kind |-> "None", v |-> 0]

\* the values a struct may hold under "_1"
Fields ==
    {[kind |-> "Integer", v |-> n] : n \in Counts}
        \cup {[kind |-> "BigInteger", v |-> 0], [kind |-> "String", v |-> 0]}

\* a value that is not a struct
Scalars == {[kind |-> f.kind, v |-> f.v, first |-> NoValue] : f \in Fields}

\* IonValue::Struct, `first` being what it holds under "_1"
Structs == {[kind |-> "Struct", v |-> 0, first |-> f] : f \in Fields \cup {NoValue}}

IonValues == Scalars \cup Structs

\* the values of all the pages of one statement, in order
ValueSeqs == UNION {[1..n -> IonValues] : n \in 0..MaxRows}

\* Document::try_from succeeds on a struct only
IsDocument(value) == value.kind = "Struct"

\* DocumentCollection::try_from: NotADocument at the first value that is not a struct
TryIntoDocuments(values) ==
    IF \A i \in 1..Len(values) : IsDocument(values[i])
    THEN [res |-> "Ok", v |-> values]
    ELSE [res |-> "QldbExtractError(NotADocument)", v |-> <<>>]

\* Document::get("_1")
GetFirstColumn(doc) == doc.first

\* mutant of LastDocument: the first document is taken
FirstDocument(docs) == docs[1]

\* result.into_inner().last()
LastDocument(docs) == docs[Len(docs)]

\* the match of QueryBuilder::count on the documents execute() returned
CountMatch(docs) ==
    IF docs = <<>>
    THEN [res |-> "NonValidCountStatementResult", v |-> 0]
    ELSE LET column == GetFirstColumn(LastDocument(docs))
         IN  IF column.kind = "Integer"
             THEN [res |-> "Ok", v |-> column.v]
             ELSE [res |-> "NonValidCountStatementResult", v |-> 0]

\* QueryBuilder::count: `self.execute().await?`, then the match
Count(sent) ==
    /\ ret = NoReturn
    /\ ret' = IF ~sent
              THEN [res |-> "SendCommandError", v |-> 0]
              ELSE LET result == TryIntoDocuments(arg)
                   IN  IF result.res # "Ok"
                       THEN [res |-> result.res, v |-> 0]
                       ELSE CountMatch(result.v)
    /\ UNCHANGED <<arg, given_back, spVars, poolVars, txVars>>

CountInit ==
    /\ PoolInit
    /\ TxIdle
    /\ arg \in ValueSeqs
    /\ ret = NoReturn
    /\ given_back = <<>>
    /\ SessionPoolInit

CountNext == \E sent \in BOOLEAN : Count(sent)

SpecCount == CountInit /\ [][CountNext]_vars

(***************************************************************************)
(* Cursor::load_more as a function of the cursor and of the server's       *)
(* answer (cursor.rs 80-95): `arg` is the cursor with the values of the    *)
(* last answer, `ret` what the last load_more returned.                    *)
(***************************************************************************)
\* Cursor::new, no command sent yet
NewCursor == [is_first_page |-> TRUE, next_page |-> NoToken, values |-> <<>>]

\* the tokens the server may answer with
PageTokens == 0..(MaxPages - 1)

\* `Ok(Some(values.try_into()?))`
SomePage(values) ==
    LET result == TryIntoDocuments(values)
    IN  IF result.res = "Ok"
        THEN [res |-> "Some", v |-> result.v]
        ELSE [res |-> result.res, v |-> <<>>]

\* Cursor::load_more: the server answers the command with `values` and
\* `token`, or the command fails
LoadMorePage(sent, values, token) ==
    /\ IF arg.is_first_page \/ arg.next_page # NoToken
       THEN IF sent
            THEN /\ arg' = [is_first_page |-> FALSE, next_page |-> token,
                            values |-> values]
                 /\ ret' = SomePage(values)
            ELSE /\ ret' = [res |-> "SendCommandError", v |-> <<>>]
                 /\ arg' = [arg EXCEPT !.values = <<>>]
       ELSE /\ arg' = [arg EXCEPT !.is_first_page = FALSE, !.values = <<>>]
            /\ ret' = [res |-> "None", v |-> <<>>]
    /\ UNCHANGED <<given_back, spVars, poolVars, txVars>>

PagesInit ==
    /\ PoolInit
    /\ TxIdle
    /\ arg = NewCursor
    /\ ret = [res |-> "none", v |-> <<>>]
    /\ given_back = <<>>
    /\ SessionPoolInit

PagesNext ==
    \E sent \in BOOLEAN, values \in ValueSeqs, token \in PageTokens :
        LoadMorePage(sent, values, token)

SpecPages == PagesInit /\ [][PagesNext]_vars

(***************************************************************************)
(* SessionPool (session_pool.rs): one thread with a LocalExecutor running  *)
(* the command task and the session creation task.  The mutexes are never  *)
(* held across an await, so a task runs from one await on a channel, the   *)
(* server or a timer to the next without the other task in between.        *)
(***************************************************************************)
\* session_create_request is unbounded; the model stops queueing at this many
MaxCreateRequests == NumCallers + 1

\* Session::is_valid
SpIsValid(s) == s \notin sp_expired

\* the sessions of PoolCommand::Return still in the channel
Returning == {receiver[i].v : i \in {j \in 1..Len(receiver) : receiver[j].kind = "Return"}}

\* the sessions created and not closed
SpLive ==
    SeqElems(sp_sessions) \cup Returning
        \cup {sp_reply[c] : c \in SpCallers} \cup {sp_held[c] : c \in SpCallers}
        \cup {command_session}

\* the token of the next session the server starts
NewSession == CHOOSE s \in SessionIds \ SpLive : \A o \in SessionIds \ SpLive : s <= o

\* mutant of OldestRequester: session_requests.pop_front()
NewestRequester(requests) == 1

\* session_requests.pop_back(): requesters are pushed at the front
OldestRequester(requests) == Len(requests)

\* the queue without its element at position i
RemoveAt(q, i) == SubSeq(q, 1, i - 1) \o SubSeq(q, i + 1, Len(q))

\* try_send_session_to_session_requesters: sessions popped at the back are
\* sent to the requesters popped at the back; a session popped when no
\* requester is left goes back in at the front
RECURSIVE TrySendSessionToSessionRequesters(_, _, _)
TrySendSessionToSessionRequesters(ss, requests, replies) ==
    IF ss = <<>>
    THEN [sessions |-> ss, requests |-> requests, replies |-> replies]
    ELSE LET session == PopBackSession(ss)
             rest == PopBackRest(ss)
         IN  IF requests = <<>>
             THEN [sessions |-> PushFront(rest, session), requests |-> requests,
                   replies |-> replies]
             ELSE LET i == OldestRequester(requests)
                  IN  TrySendSessionToSessionRequesters(
                          rest, RemoveAt(requests, i),
                          [replies EXCEPT ![requests[i]] = session])

\* the history of the answers after a step that sends sessions to requesters
Answered(cause) ==
    [c \in SpCallers |->
        IF sp_reply'[c] # NoSession /\ sp_reply[c] = NoSession THEN cause ELSE handed[c]]

\* SessionPool::get: try_send(PoolCommand::Request(sender))
SpGet(c) ==
    /\ sp_caller[c] = "idle"
    /\ receiver' = Append(receiver, [kind |-> "Request", v |-> c])
    /\ sp_caller' = [sp_caller EXCEPT ![c] = "waiting"]
    /\ asked' = Append(asked, c)
    /\ UNCHANGED <<sp_sessions, session_requests, active_session_count,
                   session_create_request, command_pc, command_sender,
                   command_session, create_pc, sp_reply, sp_held, sp_expired,
                   expirations, handed, fnVars, given_back, poolVars, txVars>>

\* SessionPool::get: receiver.recv().await returns the session
SpGetReceive(c) ==
    /\ sp_caller[c] = "waiting"
    /\ sp_reply[c] # NoSession
    /\ sp_held' = [sp_held EXCEPT ![c] = sp_reply[c]]
    /\ sp_reply' = [sp_reply EXCEPT ![c] = NoSession]
    /\ sp_caller' = [sp_caller EXCEPT ![c] = "holding"]
    /\ asked' = Without(asked, c)
    /\ UNCHANGED <<receiver, sp_sessions, session_requests, active_session_count,
                   session_create_request, command_pc, command_sender,
                   command_session, create_pc, sp_expired,
                   expirations, handed, fnVars, given_back, poolVars, txVars>>

\* SessionPool::give_back: try_send(PoolCommand::Return(session))
SpGiveBack(c) ==
    /\ sp_caller[c] = "holding"
    /\ receiver' = Append(receiver, [kind |-> "Return", v |-> sp_held[c]])
    /\ sp_held' = [sp_held EXCEPT ![c] = NoSession]
    /\ sp_caller' = [sp_caller EXCEPT ![c] = "idle"]
    /\ handed' = [handed EXCEPT ![c] = "none"]
    /\ UNCHANGED <<sp_sessions, session_requests, active_session_count,
                   session_create_request, command_pc, command_sender,
                   command_session, create_pc, sp_reply, sp_expired,
                   expirations, asked, fnVars, given_back, poolVars, txVars>>

\* a session reaches the age of 10 minutes
SpExpire(s) ==
    /\ s \in SpLive \ {NoSession}
    /\ s \notin sp_expired
    /\ expirations < MaxExpirations
    /\ sp_expired' = sp_expired \cup {s}
    /\ expirations' = expirations + 1
    /\ UNCHANGED <<receiver, sp_sessions, session_requests, active_session_count,
                   session_create_request, command_pc, command_sender,
                   command_session, create_pc, sp_caller, sp_reply, sp_held,
                   asked, handed, fnVars, given_back, poolVars, txVars>>

\* PoolCommand::Request(sender) => loop { ... }: from a pop_back to the next
\* await (close_session of an invalid session) or to the break
ServeRequest(sender) ==
    IF sp_sessions = <<>>
    THEN /\ session_requests' = PushFront(session_requests, sender)
         /\ session_create_request' = session_create_request + 1
         /\ command_pc' = "recv"
         /\ command_sender' = NoCaller
         /\ command_session' = NoSession
         /\ UNCHANGED <<sp_sessions, sp_reply>>
    ELSE LET session == PopBackSession(sp_sessions)
         IN  /\ sp_sessions' = PopBackRest(sp_sessions)
             /\ IF ~SpIsValid(session)
                THEN /\ command_pc' = "close_request"
                     /\ command_sender' = sender
                     /\ command_session' = session
                     /\ UNCHANGED sp_reply
                ELSE /\ sp_reply' = [sp_reply EXCEPT ![sender] = session]
                     /\ command_pc' = "recv"
                     /\ command_sender' = NoCaller
                     /\ command_session' = NoSession
             /\ UNCHANGED <<session_requests, session_create_request>>

\* the command task receives a PoolCommand
CommandRecv ==
    /\ command_pc = "recv"
    /\ receiver # <<>>
    /\ session_create_request < MaxCreateRequests
    /\ receiver' = Tail(receiver)
    /\ LET message == Head(receiver)
       IN  IF message.kind = "Return"
           THEN IF ~SpIsValid(message.v)
                THEN /\ command_pc' = "close_return"
                     /\ command_session' = message.v
                     /\ UNCHANGED <<sp_sessions, session_requests, sp_reply,
                                    session_create_request, command_sender>>
                ELSE LET sent == TrySendSessionToSessionRequesters(
                                     PushFront(sp_sessions, message.v),
                                     session_requests, sp_reply)
                     IN  /\ sp_sessions' = sent.sessions
                         /\ session_requests' = sent.requests
                         /\ sp_reply' = sent.replies
                         /\ UNCHANGED <<command_pc, command_session,
                                        session_create_request, command_sender>>
           ELSE ServeRequest(message.v)
    /\ handed' = Answered(IF Head(receiver).kind = "Return" THEN "returned" ELSE "idle")
    /\ UNCHANGED <<active_session_count, create_pc, sp_caller, sp_held, sp_expired,
                   expirations, asked, fnVars, given_back, poolVars, txVars>>

\* close_session returns: the end-session command was answered, or given up
\* after its retries; the counter is decremented either way
CloseSessionDone ==
    /\ command_pc \in {"close_return", "close_request"}
    /\ active_session_count' = SaturatingDec(active_session_count)
    /\ sp_expired' = sp_expired \ {command_session}
    /\ IF command_pc = "close_return"
       THEN /\ command_pc' = "recv"
            /\ command_session' = NoSession
            /\ UNCHANGED <<sp_sessions, session_requests, sp_reply,
                           session_create_request, command_sender>>
       ELSE ServeRequest(command_sender)
    /\ handed' = Answered("idle")
    /\ UNCHANGED <<receiver, create_pc, sp_caller, sp_held,
                   expirations, asked, fnVars, given_back, poolVars, txVars>>

\* mutant of AtCapacity: the test is missing
AtCapacityNever(count) == FALSE

\* `active_session_count.load(Relaxed) >= max_sessions`
AtCapacity(count) == count >= PoolSize

\* the session creation task receives a () and tests the counter
CreateRecv ==
    /\ create_pc = "recv"
    /\ session_create_request > 0
    /\ session_create_request' = session_create_request - 1
    /\ create_pc' = IF AtCapacity(active_session_count) THEN "recv" ELSE "creating"
    /\ UNCHANGED <<receiver, sp_sessions, session_requests, active_session_count,
                   command_pc, command_sender, command_session,
                   sp_caller, sp_reply, sp_held, sp_expired,
                   expirations, asked, handed, fnVars, given_back, poolVars, txVars>>

\* create_session returned Ok: add_session, try_send_session_to_session_requesters,
\* and one more () when there is room and a requester is left
CreateOk ==
    /\ create_pc = "creating"
    /\ SessionIds \ SpLive # {}
    /\ LET sent == TrySendSessionToSessionRequesters(
                       PushFront(sp_sessions, NewSession), session_requests, sp_reply)
           count == active_session_count + 1
       IN  /\ active_session_count' = count
           /\ sp_sessions' = sent.sessions
           /\ session_requests' = sent.requests
           /\ sp_reply' = sent.replies
           /\ session_create_request' =
                  IF count < PoolSize /\ sent.requests # <<>>
                  THEN session_create_request + 1
                  ELSE session_create_request
    /\ create_pc' = "recv"
    /\ handed' = Answered("created")
    /\ UNCHANGED <<receiver, command_pc, command_sender, command_session,
                   sp_caller, sp_held, sp_expired,
                   expirations, asked, fnVars, given_back, poolVars, txVars>>

\* create_session returned Err: Timer::after(100 ms)
CreateFail ==
    /\ create_pc = "creating"
    /\ create_pc' = "timer"
    /\ UNCHANGED <<receiver, sp_sessions, session_requests, active_session_count,
                   session_create_request, command_pc, command_sender,
                   command_session, sp_caller, sp_reply, sp_held, sp_expired,
                   expirations, asked, handed, fnVars, given_back, poolVars, txVars>>

\* mutant of CreateTimer: no () is sent after the timer
CreateTimerForgets ==
    /\ create_pc = "timer"
    /\ create_pc' = "recv"
    /\ UNCHANGED <<receiver, sp_sessions, session_requests, active_session_count,
                   session_create_request, command_pc, command_sender, command_session,
                   sp_caller, sp_reply, sp_held, sp_expired,
                   expirations, asked, handed, fnVars, given_back, poolVars, txVars>>

\* the timer fired: session_create_request.send(())
CreateTimer ==
    /\ create_pc = "timer"
    /\ session_create_request < MaxCreateRequests
    /\ session_create_request' = session_create_request + 1
    /\ create_pc' = "recv"
    /\ UNCHANGED <<receiver, sp_sessions, session_requests, active_session_count,
                   command_pc, command_sender, command_session,
                   sp_caller, sp_reply, sp_held, sp_expired,
                   expirations, asked, handed, fnVars, given_back, poolVars, txVars>>

SessionPoolNext ==
    \/ \E c \in SpCallers : SpGet(c)
    \/ \E c \in SpCallers : SpGetReceive(c)
    \/ \E c \in SpCallers : SpGiveBack(c)
    \/ \E s \in SessionIds : SpExpire(s)
    \/ CommandRecv
    \/ CloseSessionDone
    \/ CreateRecv
    \/ CreateOk
    \/ CreateFail
    \/ CreateTimer

SpecSessionPool == Init /\ [][SessionPoolNext]_vars

\* Both pools in front of a server whose start-session may fail: the get()
\* calls and the provisioning they start.
FailingNext ==
    \/ \E c \in Callers : Get(c)
    \/ \E c \in Callers : GetReceive(c)
    \/ ReqRecv
    \/ ReqLoop
    \/ RefillOk
    \/ \E r \in BOOLEAN : RefillFail(r)
    \/ \E c \in Callers : SpGet(c)
    \/ \E c \in Callers : SpGetReceive(c)
    \/ CommandRecv
    \/ CreateRecv
    \/ CreateOk
    \/ CreateFail
    \/ CreateTimer

SpecFailing == Init /\ [][FailingNext]_vars

\* The pool in front of a server whose start-session succeeds.
ServingNext ==
    \/ \E c \in SpCallers : SpGet(c)
    \/ \E c \in SpCallers : SpGetReceive(c)
    \/ \E c \in SpCallers : SpGiveBack(c)
    \/ \E s \in SessionIds : SpExpire(s)
    \/ CommandRecv
    \/ CloseSessionDone
    \/ CreateRecv
    \/ CreateOk

\* The executor runs a task that can run, the server answers, a get() that
\* was answered returns, and a caller gives back the session it holds.
ServingFairness ==
    /\ WF_vars(CommandRecv)
    /\ WF_vars(CloseSessionDone)
    /\ WF_vars(CreateRecv)
    /\ WF_vars(CreateOk)
    /\ \A c \in SpCallers : WF_vars(SpGetReceive(c))
    /\ \A c \in SpCallers : WF_vars(SpGiveBack(c))

SpecServing == Init /\ [][ServingNext]_vars /\ ServingFairness

(***************************************************************************)
(* Claims about the session pool.                                          *)
(***************************************************************************)

\* C1: the number of sessions provisioned by the pool and not yet ended
\* (idle sessions plus sessions checked out by callers) never exceeds
\* max_sessions.
C1_ProvisionedWithinMax ==
    Cardinality(SeqElems(sessions) \cup CheckedOut) <= max_sessions

\* how many places hold session s: the idle queue (each position) and the callers
Holders(s) ==
    Cardinality({i \in 1..Len(sessions) : sessions[i] = s})
    + Cardinality({c \in Callers : reply[c] = s})
    + Cardinality({c \in Callers : held[c] = s})

\* C2: a session delivered by get() to one caller is not delivered to another
\* caller and is not in the idle queue until it is given back: every session
\* has at most one holder.
C2_AtMostOneHolder == \A s \in SessionIds : Holders(s) <= 1

\* C2 witness: a session that went through give_back is held again after a
\* second delivery, while another caller holds a different session.
C2_Witness ==
    \E c1, c2 \in Callers :
        /\ c1 # c2
        /\ held[c1] # NoSession
        /\ held[c2] # NoSession
        /\ delivered[held[c1]] = 2

(***************************************************************************)
(* Claims about transactions, builders and cursors.                        *)
(***************************************************************************)

\* process p starts the call c in this step
Calls(p, c) ==
    /\ proc[p].pc = "idle"
    /\ proc'[p].call = c
    /\ proc'[p] # proc[p]

\* the step changes neither what the server has seen of t nor its flag
NoCommandSent(t) ==
    /\ wire'[t] = wire[t]
    /\ completed'[t] = completed[t]
    /\ completed_by'[t] = completed_by[t]

\* C3: for one transaction shared by several clones, whatever the
\* interleaving of commit() and rollback() calls, at most one completion
\* command (commit-transaction or abort-transaction) is sent.
C3_OneCompletionCommand ==
    \A t \in Txs : wire[t].commits + wire[t].aborts <= 1

\* C3 witness: two clones have both finished a completion call, one sent its
\* command and the other returned without sending.
C3_Witness ==
    /\ proc[1].pc = "idle" /\ proc[1].call = "commit" /\ ~proc[1].noop
    /\ proc[2].pc = "idle" /\ proc[2].call = "rollback" /\ proc[2].noop
    /\ wire[1].commits = 1
    /\ wire[1].aborts = 0

\* C4: a commit() after a commit(), or a rollback() after a rollback(),
\* returns success at once, sends no command and leaves the transaction in
\* the terminal state the first call put it in.
C4_Idempotent ==
    [][\A p \in Procs : \A c \in {"commit", "rollback"} :
          (Calls(p, c) /\ completed_by[tx_of[p]] = c)
              => /\ proc'[p].pc = "idle"
                 /\ proc'[p].res = "Ok"
                 /\ NoCommandSent(tx_of[p])]_vars

\* C4 witness: a second rollback() has returned Ok after the first one sent
\* the only abort-transaction command.
C4_Witness ==
    /\ completed_by[1] = "rollback"
    /\ proc[1].pc = "idle" /\ proc[1].call = "rollback" /\ proc[1].res = "Ok"
    /\ proc[1].noop
    /\ wire[1].aborts = 1
    /\ wire[1].commits = 0

\* C5: when the commit-transaction command fails the transaction stays
\* Open: it is not marked completed, a later statement is not rejected with
\* TransactionCompleted, and a later rollback() still sends abort-transaction.
C5_FailedCommitStaysOpen ==
    [][\A p \in Procs :
          LET t == tx_of[p]
          IN  /\ (proc[p].pc = "commit_send" /\ proc'[p].res = "ErrCommit")
                    => ~completed'[t]
              /\ (commit_failed[t] /\ completed_by[t] = "commit" /\ wire[t].aborts = 0)
                    => /\ (Calls(p, "query") \/ Calls(p, "execute"))
                             => proc'[p].res # "TransactionCompleted"
                       /\ Calls(p, "rollback") => proc'[p].pc = "rollback_send"]_vars

\* C6: commit() on a rolled-back transaction fails with
\* TransactionAlreadyRollback and rollback() on a committed transaction fails
\* with TransactionAlreadyCommitted; neither sends a command nor changes the
\* terminal state.
C6_OppositeCompletionFails ==
    [][\A p \in Procs :
          LET t == tx_of[p]
          IN  /\ (Calls(p, "commit") /\ completed_by[t] = "rollback")
                    => /\ proc'[p].res = "TransactionAlreadyRollback"
                       /\ NoCommandSent(t)
              /\ (Calls(p, "rollback") /\ completed_by[t] = "commit")
                    => /\ proc'[p].res = "TransactionAlreadyCommitted"
                       /\ NoCommandSent(t)]_vars

\* C7: executing a statement on a transaction that is completed fails with
\* TransactionCompleted, sends no execute-statement command and leaves the
\* digest as it was.
C7_CompletedRejectsStatements ==
    [][\A p \in Procs :
          LET t == tx_of[p]
          IN  ((Calls(p, "query") \/ Calls(p, "execute")) /\ completed[t])
                  => /\ proc'[p].pc = "idle"
                     /\ proc'[p].res = "TransactionCompleted"
                     /\ wire'[t] = wire[t]
                     /\ hasher'[t] = hasher[t]]_vars

\* C7 witness: a statement was rejected on a transaction on which an earlier
\* statement had been executed and a completion command sent.
C7_Witness ==
    \E p \in Procs :
        /\ proc[p].res = "TransactionCompleted"
        /\ proc[p].call \in {"query", "execute"}
        /\ Len(wire[tx_of[p]].statements) = 1
        /\ wire[tx_of[p]].commits + wire[tx_of[p]].aborts = 1

\* process p calls load_more or load_all on a cursor whose statement has
\* been through execute_statement and whose first page never arrived
RetriesExecution(p) ==
    /\ qb[p].state = "cursor"
    /\ qb[p].is_first_page
    /\ qb[p].is_executed
    /\ qb'[p].state # "builder"
    /\ Calls(p, "load_more") \/ Calls(p, "load_all")

\* no builder has sent its statement or folded it into the digest twice
SentAndFoldedOnce == \A p \in Procs : qb[p].exec_sent <= 1 /\ qb[p].folds <= 1

\* C8 as stated: per builder at most one execute-statement command and one
\* fold into the digest, and every later execution attempt fails with
\* QueryAlreadyExecuted.
C8_LaterAttemptsAlreadyExecuted ==
    /\ []SentAndFoldedOnce
    /\ [][\A p \in Procs :
            RetriesExecution(p)
                => /\ proc'[p].res = "QueryAlreadyExecuted"
                   /\ wire' = wire
                   /\ hasher' = hasher]_vars

\* C8, amended: per builder at most one execute-statement command and one
\* fold into the digest; a later execution attempt sends nothing and fails,
\* with QueryAlreadyExecuted while the transaction is not completed and with
\* TransactionCompleted once it is.
C8_LaterAttemptsFail ==
    /\ []SentAndFoldedOnce
    /\ [][\A p \in Procs :
            RetriesExecution(p)
                => /\ proc'[p].res = IF completed[tx_of[p]]
                                     THEN "TransactionCompleted"
                                     ELSE "QueryAlreadyExecuted"
                   /\ wire' = wire
                   /\ hasher' = hasher]_vars

\* C8 witness: the execute-statement command failed, the statement was sent
\* and folded once, and the retry was answered QueryAlreadyExecuted.
C8_Witness ==
    /\ proc[1].pc = "idle"
    /\ proc[1].call = "load_more"
    /\ proc[1].res = "QueryAlreadyExecuted"
    /\ qb[1].state = "cursor"
    /\ qb[1].is_first_page
    /\ qb[1].exec_sent = 1
    /\ qb[1].folds = 1

\* the digest of a transaction that executed the statements sts in order
RECURSIVE DigestOf(_, _)
DigestOf(h, sts) ==
    IF sts = <<>> THEN h
    ELSE DigestOf(Dot(h, AddParams(H(Head(sts)[1]), Head(sts)[2])), Tail(sts))

\* C9: the digest sent with commit-transaction is a function of the
\* transaction id and of the statements sent, in order, with their parameters
\* in order, starting from H(transaction id); so two transactions with the
\* same id and the same statements send equal digests, whatever the answers
\* and the session.
C9_DigestIsFunction ==
    \A t \in Txs :
        /\ queries[t] = 0 => hasher[t] = H(transaction_id[t])
        /\ wire[t].commits > 0
              => wire[t].commit_digest =
                     DigestOf(H(transaction_id[t]), wire[t].statements)

\* C9 witness: a commit was sent after two statements, one of which failed
\* and one of which carried two parameters.
C9_Witness ==
    /\ wire[1].commits = 1
    /\ Len(wire[1].statements) = 2
    /\ Len(wire[1].statements[1][2]) = 2
    /\ proc[1].call = "commit"

\* C10: when the closure of transaction_within returns an error, no
\* commit-transaction command is sent, the transaction is rolled back and
\* transaction_within returns the closure's error, also when the
\* abort-transaction command fails.
C10_ClosureErrorReturned ==
    \A p \in Procs :
        (within[p].pc = "done" /\ within[p].closure = "ClosureError")
            => /\ within[p].result = "ClosureError"
               /\ wire[tx_of[p]].commits = 0
               /\ completed[tx_of[p]]

\* C11: when the closure of transaction_within has rolled the transaction
\* back itself (its abort-transaction command is on the wire) and returns Ok,
\* the automatic commit sends no commit-transaction command, no second
\* completion command is sent and transaction_within returns Ok.
C11_RollbackInClosureThenOk ==
    \A p \in Procs :
        (/\ within[p].pc = "done"
         /\ within[p].closure = "Ok"
         /\ wire[tx_of[p]].aborts >= 1)
            => /\ within[p].result = "Ok"
               /\ wire[tx_of[p]].commits = 0
               /\ wire[tx_of[p]].aborts = 1

\* C11 witness: process 1 alone rolled back inside its closure, the closure
\* returned Ok and the automatic commit returned without sending.
C11_Witness ==
    /\ within[1].pc = "done"
    /\ within[1].closure = "Ok"
    /\ within[1].result = "Ok"
    /\ proc[1].call = "silent_commit"
    /\ proc[1].noop
    /\ proc[2] = IdleProc
    /\ wire[1].aborts = 1

\* C12: when the server rejects commit-transaction with an OCC conflict,
\* one commit-transaction command has been sent for the transaction and
\* transaction_within returns the OCC conflict, which is not the error of any
\* other failed commit; a transaction whose commit was accepted returns Ok.
C12_OccConflictReturned ==
    \A p \in Procs :
        (within[p].pc = "done" /\ proc[p].call = "silent_commit" /\ ~proc[p].noop)
            => /\ wire[tx_of[p]].commits = 1
               /\ wire[tx_of[p]].aborts = 0
               /\ within[p].result = proc[p].res
               /\ proc[p].res \in {"Ok", "ErrCommit", "OccConflict"}

\* C12 witness: of two concurrent transactions one was rejected with an OCC
\* conflict and returned it, the other was accepted and returned Ok.
C12_Witness ==
    /\ within[1].pc = "done" /\ within[1].result = "OccConflict"
    /\ within[2].pc = "done" /\ within[2].result = "Ok"
    /\ proc[1].res = "OccConflict"
    /\ proc[2].call = "silent_commit" /\ proc[2].res = "Ok" /\ ~proc[2].noop
    /\ wire[1].commits = 1
    /\ wire[2].commits = 1
    /\ Len(wire[1].statements) = 1
    /\ Len(wire[2].statements) = 1

\* C13: for a transaction created by read_query (auto_rollback set), no
\* commit-transaction command is ever sent, whatever is done with the
\* builder or its cursor.
C13_ReadQueryNeverCommits ==
    \A t \in Txs : auto_rollback[t] => wire[t].commits = 0

\* C13 witness: execute() on a read_query builder has drained its result
\* and rolled the transaction back.
C13_Witness ==
    /\ auto_rollback[1]
    /\ proc[1].pc = "idle" /\ proc[1].call = "execute" /\ proc[1].res = "Ok"
    /\ qb[1].state = "consumed"
    /\ wire[1].aborts = 1
    /\ wire[1].commits = 0

\* C14: execute() on an auto_rollback builder sends abort-transaction only
\* when the first page has arrived and the cursor holds no continuation
\* token: never while a page remains to be fetched.
C14_AutoRollbackAfterLastPage ==
    \A p \in Procs :
        (proc[p].call = "execute" /\ proc[p].pc = "rollback_send")
            => /\ ~qb[p].is_first_page
               /\ qb[p].next_page = NoToken
               /\ qb[p].exec_sent = 1

\* C14 witness: execute() is about to send abort-transaction after a result
\* of more than one page.
C14_Witness ==
    /\ proc[1].call = "execute"
    /\ proc[1].pc = "rollback_send"
    /\ qb[1].next_page = NoToken
    /\ qb[1].fetches >= 1

\* every fetch-page command sent for the cursor was answered with a page
AllFetchesAnswered(b) == Len(b.got) = b.fetches + 1

\* the caller has received the pages 1..total of the result, in this order,
\* through one execute-statement and total - 1 fetch-page commands
DrainedInOrder(b) ==
    /\ b.got = [i \in 1..b.total |-> i]
    /\ b.exec_sent = 1
    /\ b.fetches = b.total - 1

\* C15: for a result the server delivers as k pages, load_more() returns
\* None only after it has returned the pages 1..k in server order, each once,
\* with one execute-statement and k - 1 fetch-page commands; load_all() and
\* execute() return Ok with the same k pages in the same order.
C15_PagesInServerOrder ==
    \A p \in Procs :
        /\ (/\ proc[p].pc = "idle" /\ proc[p].call = "load_more" /\ proc[p].res = "None"
            /\ qb[p].state = "cursor"
            /\ AllFetchesAnswered(qb[p]))
              => DrainedInOrder(qb[p])
        /\ (/\ proc[p].pc = "idle" /\ proc[p].call \in {"load_all", "execute"}
            /\ proc[p].res = "Ok"
            /\ qb[p].state = "consumed"
            /\ AllFetchesAnswered(qb[p]))
              => DrainedInOrder(qb[p])

\* C15 witness: load_more() has returned None after a result of MaxPages pages.
C15_Witness ==
    /\ proc[1].pc = "idle" /\ proc[1].call = "load_more" /\ proc[1].res = "None"
    /\ qb[1].state = "cursor"
    /\ qb[1].total = MaxPages
    /\ qb[1].got = [i \in 1..MaxPages |-> i]
    /\ qb[1].fetches = MaxPages - 1

\* C16: on a cursor whose first page was fetched and which holds no
\* continuation token, load_more() returns None, not an error, and sends
\* no command; the cursor is left as it was, so every further call does the
\* same.
C16_NoMoreDataIdempotent ==
    [][\A p \in Procs :
          (/\ Calls(p, "load_more")
           /\ qb[p].state = "cursor"
           /\ ~qb[p].is_first_page
           /\ qb[p].next_page = NoToken)
              => /\ proc'[p].pc = "idle"
                 /\ proc'[p].res = "None"
                 /\ qb'[p] = qb[p]
                 /\ wire' = wire
                 /\ hasher' = hasher]_vars

\* C16 witness: load_more() has returned None on a drained cursor.
C16_Witness ==
    /\ proc[1].pc = "idle" /\ proc[1].call = "load_more" /\ proc[1].res = "None"
    /\ qb[1].state = "cursor"
    /\ ~qb[1].is_first_page
    /\ qb[1].next_page = NoToken
    /\ qb[1].exec_sent = 1

\* C17: a get() issued after close() never receives a session and fails:
\* once the request task has ended, the reply sender of every such get() has
\* been dropped, so that its recv() returns an error.
C17_GetAfterCloseFails ==
    \A c \in Callers :
        caller[c] = "waiting_late"
            => /\ reply[c] = NoSession
               /\ req_pc = "done" => sender_dropped[c]

\* process p starts the first execution of a statement in this step
StartsStatement(p) ==
    \/ /\ qb[p].state = "cursor"
       /\ qb[p].is_first_page
       /\ ~qb[p].is_executed
       /\ Calls(p, "load_more") \/ Calls(p, "load_all")
    \/ /\ qb[p].state = "builder"
       /\ Calls(p, "execute")

\* process p asks for the next page of its cursor in this step
StartsFetch(p) ==
    /\ qb[p].state = "cursor"
    /\ ~qb[p].is_first_page
    /\ qb[p].next_page # NoToken
    /\ Calls(p, "load_more") \/ Calls(p, "load_all")

\* C18: close() changes nothing in a transaction that holds a session, and
\* with the pool closed its calls go on as the transaction's own state says:
\* a statement of an open transaction is hashed and sent, a page is fetched,
\* commit and rollback send their command.
C18_CloseIsFrame ==
    [][/\ (is_closed' # is_closed)
            => UNCHANGED <<cfgVars, restVars, completed, hasher, qb, within, wire,
                           completed_by, commit_failed, queries>>
       /\ \A p \in Procs :
            (is_closed /\ is_closed')
                => /\ (StartsStatement(p) /\ ~completed[tx_of[p]])
                         => proc'[p].pc = "exec_hash"
                   /\ StartsFetch(p) => proc'[p].pc = "fetch_send"
                   /\ (Calls(p, "commit") /\ ~completed[tx_of[p]])
                         => proc'[p].pc = "commit_digest"
                   /\ (Calls(p, "rollback") /\ ~completed[tx_of[p]])
                         => proc'[p].pc = "rollback_send"]_vars

\* C18 witness: the task closed the pool and afterwards committed its
\* transaction, in which a statement had been executed.
C18_Witness ==
    /\ is_closed
    /\ proc[1].pc = "idle" /\ proc[1].call = "commit" /\ proc[1].res = "Ok"
    /\ ~proc[1].noop
    /\ wire[1].commits = 1
    /\ Len(wire[1].statements) >= 1

\* Number of times the value x occurs in the sequence q.
Occurrences(q, x) == Cardinality({i \in 1..Len(q) : q[i] = x})

\* The number of times the session of transaction t has been handed to the
\* pool: give_back puts a session in the return queue, from where the return
\* task moves it to the idle sessions or ends it.
GivenBack(t) ==
    Occurrences(returning, tx_session[t]) + Occurrences(sessions, tx_session[t])
        + (IF tx_session[t] \in closing THEN 1 ELSE 0)

\* Transaction t has been completed by a call that has returned Ok.
CompletionReturned(t) ==
    \E p \in Procs :
        /\ tx_of[p] = t
        /\ proc[p].pc = "idle"
        /\ proc[p].call \in {"commit", "rollback"}
        /\ proc[p].res = "Ok"
        /\ ~proc[p].noop

\* C19: the session a transaction holds is given back to the pool exactly
\* once: never while the transaction is open, once when a commit or a
\* rollback has completed it, and never a second time.
C19_SessionGivenBackOnce ==
    \A t \in Txs :
        /\ GivenBack(t) <= 1
        /\ ~completed[t] => GivenBack(t) = 0
        /\ CompletionReturned(t) => GivenBack(t) = 1

\* A step in which create_session gives up on an unrecoverable error: the
\* start-session command failed, no session was created, no retry of
\* create_session is left to take (the tries are within MaxTries, so it is
\* the Unrecoverable arm that broke out of the loop).
UnrecoverableGiveUp ==
    /\ req_pc = "refill"
    /\ req_pc' = "loop"
    /\ created' = created
    /\ req_tries + 1 <= MaxTries

\* C20: when start-session fails with an unrecoverable error while a get()
\* is being served, the request task stops serving that request (no further
\* start-session command for it) and the get() fails at once: its reply
\* sender is dropped, so its recv() returns an error.
C20_UnrecoverableFailsGet ==
    [][UnrecoverableGiveUp =>
          /\ req_pc' # "refill"
          /\ req_sender' # req_sender
          /\ sender_dropped'[req_sender]]_vars

\* A step in which create_session sends one start-session command and gets
\* its answer: a session (RefillOk) or a failure (CreateSessionFail).
StartSessionSent ==
    /\ req_pc = "refill"
    /\ \/ created' # created
       \/ req_tries' # req_tries
       \/ req_pc' = "loop"

\* C21: one call of create_session sends at most MaxTries (10) start-session
\* commands: after MaxTries failed attempts no further command is sent.
C21_AtMostTenAttempts ==
    [][StartSessionSent => req_tries + 1 <= MaxTries]_vars

\* The last value has the shape of a count: a struct with an Integer under "_1".
LastIsCount ==
    /\ arg # <<>>
    /\ arg[Len(arg)].kind = "Struct"
    /\ arg[Len(arg)].first.kind = "Integer"

\* count() has returned after a statement that the server answered.
CountAnswered == ret.res \notin {"none", "SendCommandError"}

Provisioned ==
    SeqElems(sessions) \cup SeqElems(returning) \cup CheckedOut
        \cup {s \in SessionIds : \E t \in 0..MaxTries : <<s, t>> \in closing}

\* C23: once the closed flag is true the number of provisioned and not ended
\* sessions never increases: no start-session command completes into a new
\* pool session after close().
C23_NoProvisioningAfterClose ==
    [][is_closed => Cardinality(Provisioned') <= Cardinality(Provisioned)]_vars

\* the valid sessions in the idle queue
ValidIdle == {s \in SeqElems(sessions) : IsValid(s)}

\* the position of session s in the order of the give_back calls
GivenBackAt(s) == CHOOSE i \in 1..Len(given_back) : given_back[i] = s

\* the valid idle session that was given back last
LastGivenBack ==
    CHOOSE s \in ValidIdle : \A o \in ValidIdle : GivenBackAt(o) <= GivenBackAt(s)

\* A step of the request task that hands an idle session to the caller it
\* serves, several valid sessions, all of them given back, being idle.
ReusesIdle ==
    /\ req_pc = "loop"
    /\ Cardinality(ValidIdle) >= 2
    /\ ValidIdle \subseteq SeqElems(given_back)
    /\ reply'[req_sender] # NoSession

\* C24: idle sessions are reused in LIFO order: when several valid sessions
\* are idle, get() hands out the one that was given back most recently.
C24_ReuseIsLifo ==
    [][ReusesIdle => reply'[req_sender] = LastGivenBack]_vars

(***************************************************************************)
(* Claims about the queue-based SessionPool.                               *)
(***************************************************************************)

\* the callers inside get() that the pool has not answered
Unanswered == {c \in SpCallers : sp_caller[c] = "waiting" /\ sp_reply[c] = NoSession}

\* the unanswered caller whose get() is the earliest
LongestWaiting ==
    asked[CHOOSE i \in 1..Len(asked) :
              /\ asked[i] \in Unanswered
              /\ \A j \in 1..(i - 1) : asked[j] \notin Unanswered]

\* A step in which the command task takes a valid session that was given
\* back from the channel while requesters are queued.
ValidReturnToWaiters ==
    /\ command_pc = "recv"
    /\ receiver # <<>>
    /\ receiver' = Tail(receiver)
    /\ Head(receiver).kind = "Return"
    /\ SpIsValid(Head(receiver).v)
    /\ session_requests # <<>>

\* C25: when a valid session is given back while requests are waiting, it is
\* delivered to the request that has waited longest and it is not left in
\* the idle queue.
C25_ReturnGoesToOldestWaiter ==
    [][ValidReturnToWaiters =>
          /\ sp_reply'[LongestWaiting] = Head(receiver).v
          /\ Head(receiver).v \notin SeqElems(sp_sessions')]_vars

\* C25 witness: two callers were waiting, the second still is, and the first
\* has been answered with a session that a third caller gave back.
C25_Witness ==
    \E a, b \in SpCallers :
        /\ a # b
        /\ asked = <<a, b>>
        /\ handed[a] = "returned"
        /\ sp_reply[a] # NoSession
        /\ session_requests = <<b>>

\* C26: with max_sessions >= 1, fair scheduling of the pool tasks, a server
\* whose start-session succeeds and callers that give back every session
\* they are handed, every get() eventually receives a session.
C26_EveryGetIsServed ==
    \A c \in SpCallers : (sp_caller[c] = "waiting") ~> (sp_caller[c] = "holding")

\* C27: active_session_count never exceeds max_sessions and equals the number
\* of sessions created by the pool and not yet closed (a session whose
\* close_session is in progress still counts).
C27_ActiveCountExact ==
    /\ active_session_count <= PoolSize
    /\ active_session_count = Cardinality(SpLive \ {NoSession})

\* C27 witness: the pool is at capacity again after a session was closed and
\* another one created, with a requester queued.
C27_Witness ==
    /\ active_session_count = PoolSize
    /\ expirations = 1
    /\ sp_expired = {}
    /\ session_requests # <<>>
    /\ \E c \in SpCallers : handed[c] = "created" /\ sp_held[c] # NoSession

\* the sessions whose close_session task is spawned and has not finished
Closing == {s \in SessionIds : \E t \in 0..MaxTries : <<s, t>> \in closing}

\* A step of the request task that pops an invalid session for a get().
PopsInvalid ==
    /\ req_pc = "loop"
    /\ sessions # <<>>
    /\ sessions[Len(sessions)] \in expired
    /\ sessions' # sessions

\* A step of the returning task that receives an invalid session from an
\* open pool.
ReturnsInvalid ==
    /\ ret_pc = "recv"
    /\ returning # <<>>
    /\ returning' = Tail(returning)
    /\ Head(returning) \in expired
    /\ ~is_closed

RefillGivesUp ==
    /\ req_pc = "refill"
    /\ req_pc' = "loop"
    /\ created' = created

\* The request the threaded pool serves is pending: not answered, its reply
\* sender alive and still the one the request task holds.
RequestKept ==
    /\ req_sender' = req_sender
    /\ ~sender_dropped'[req_sender]
    /\ reply'[req_sender] = NoSession
    /\ caller'[req_sender] = "waiting"

\* C29: a provisioning failure while a get() is being served never loses the
\* request.  Threaded pool: the request task keeps the reply sender, answers
\* nothing and its next turn starts a new refill.  SessionPool: the queued
\* requesters stay queued and unanswered and, after the timer, a new () asks
\* for another attempt.
C29_FailureKeepsRequest ==
    [][/\ RefillGivesUp => RequestKept
       /\ (req_pc = "refill" /\ req_tries' = req_tries + 1) => RequestKept
       /\ (req_pc = "loop" /\ sessions = <<>> /\ req_pc' # "loop")
              => (req_pc' = "refill" /\ req_sender' = req_sender)
       /\ (create_pc = "creating" /\ create_pc' = "timer")
              => (session_requests' = session_requests /\ sp_reply' = sp_reply)
       /\ (create_pc = "timer" /\ create_pc' # "timer")
              => (/\ session_create_request' = session_create_request + 1
                  /\ session_requests' = session_requests
                  /\ sp_reply' = sp_reply)]_vars

\* C29 witness: in the threaded pool a start-session command has failed for
\* the get() being served, which is still pending; in the SessionPool
\* create_session has failed while a requester is queued.
C29_Witness ==
    /\ req_pc = "refill"
    /\ req_tries >= 1
    /\ caller[req_sender] = "waiting"
    /\ ~sender_dropped[req_sender]
    /\ create_pc = "timer"
    /\ session_requests # <<>>

\* A step of execute_statement that folds the builder's statement into the
\* digest of its transaction.
FoldsStatement ==
    /\ proc[1].pc = "exec_hash"
    /\ proc[1].call # "query"
    /\ proc'[1].pc = "exec_send"

\* A step that sends the execute-statement command of the builder.
SendsStatement ==
    /\ proc[1].pc = "exec_send"
    /\ proc[1].call # "query"
    /\ Len(wire'[tx_of[1]].statements) = Len(wire[tx_of[1]].statements) + 1

\* C30: the parameters of a statement are folded into the statement digest
\* and sent in execute-statement in exactly the order of the .param() calls
\* on the builder.
C30_ParamsInCallOrder ==
    [][/\ FoldsStatement =>
            hasher'[tx_of[1]] =
                Dot(hasher[tx_of[1]], AddParams(H(qb[1].statement), arg))
       /\ SendsStatement =>
            LET sts == wire'[tx_of[1]].statements
            IN  sts[Len(sts)][2] = arg]_vars

\* C30 witness: a statement was sent with two different parameters, in the
\* order of the calls.
C30_Witness ==
    /\ arg = <<22, 21>>
    /\ wire[1].statements # <<>>
    /\ wire[1].statements[Len(wire[1].statements)][2] = <<22, 21>>
    /\ proc[1].pc = "idle"
    /\ proc[1].call = "execute"

(***************************************************************************)
(* Claims about statements running next to a completion.                   *)
(***************************************************************************)

\* the commit-transaction or abort-transaction command of t has been sent
CompletionSent(t) == wire[t].commits + wire[t].aborts > 0

\* C31: once the commit-transaction or abort-transaction command of a
\* transaction has been sent, no execute-statement command is sent for it and
\* no statement is folded into its digest, whatever the interleaving of a
\* statement execution with a concurrent commit() or rollback().
C31_NothingAfterCompletionSent ==
    [][\A t \in Txs :
          CompletionSent(t)
              => /\ wire'[t].statements = wire[t].statements
                 /\ hasher'[t] = hasher[t]]_vars

\* the execute-statement commands of transaction 1 in the order they were sent
SentStatements == wire[1].statements

\* the statements of the sequence sts that task p executed
ByTask(sts, p) == SelectSeq(sts, LAMBDA st : st[1] \in StatementsOf(p))

\* the sequence a is the beginning of the sequence b
IsPrefix(a, b) == Len(a) <= Len(b) /\ a = SubSeq(b, 1, Len(a))

\* C32: within one transaction the statement digests are folded into the
\* transaction digest in the order in which the execute-statement commands
\* are sent, also when two builders of the transaction execute concurrently:
\* the commands sent so far are the first folds, in the same order.
C32_FoldOrderIsSendOrder == IsPrefix(SentStatements, arg)

\* C32 amended: the statements that one task executes one after another on
\* a transaction are folded into the digest in the order in which their
\* execute-statement commands are sent, with the parameters that are sent.
C32_FoldOrderIsSendOrderPerTask ==
    \A p \in Procs : IsPrefix(ByTask(SentStatements, p), ByTask(arg, p))

\* C32 witness: both tasks have executed a statement on the transaction, one
\* of them two, one with parameters, and the commands went out in an order
\* that is not the order of the folds.
C32_Witness ==
    /\ Len(SentStatements) = 2
    /\ Len(arg) = 2
    /\ SentStatements[1] = arg[2]
    /\ SentStatements[2] = arg[1]
    /\ arg[1][1] \in StatementsOf(1)
    /\ arg[2][1] \in StatementsOf(2)
    /\ arg[1][2] # <<>>

\* C33: an execute-statement command that fails with a transport error leaves
\* the transaction digest as it was before that execution: the digest sent
\* with commit-transaction covers exactly the statements whose
\* execute-statement command succeeded, in order.
C33_DigestCoversSucceeded ==
    \A t \in Solo :
        wire[t].commits > 0
            => wire[t].commit_digest = DigestOf(H(transaction_id[t]), arg)

(***************************************************************************)
(* Claims about draining a result.                                         *)
(***************************************************************************)

\* the last page of the result of p's builder has been returned: the first
\* page arrived, no continuation token is left, and the call that brought the
\* page is over or has only its rollback left
LastPageReturned(p) ==
    /\ proc[p].call \in {"execute", "load_more", "load_all"}
    /\ \/ proc[p].pc = "idle" /\ proc[p].res \in {"Page", "Ok"}
       \/ proc[p].pc = "rollback_send"
    /\ ~qb[p].is_first_page
    /\ qb[p].next_page = NoToken
    /\ AllFetchesAnswered(qb[p])

\* C34: for a builder created with auto_rollback (read_query), whichever path
\* drains the result (execute(), count(), or a cursor driven by load_more /
\* load_all), once the last page has been returned abort-transaction is
\* eventually sent and the transaction ends completed.
C34_DrainedIsRolledBack ==
    \A p \in Solo :
        LastPageReturned(p) ~> (wire[tx_of[p]].aborts > 0 /\ completed[tx_of[p]])

\* the same for execute() alone
ExecuteDrainedIsRolledBack ==
    \A p \in Solo :
        (LastPageReturned(p) /\ proc[p].call = "execute")
            ~> (wire[tx_of[p]].aborts > 0 /\ completed[tx_of[p]])

\* C35: load_more returns Some(page) when the server returned documents and
\* None when it returned none: it never returns Some of an empty page, in
\* particular for a statement whose result is empty.
C35_NeverSomeOfEmptyPage ==
    ret.res = "Some" => ret.v # <<>>

(***************************************************************************)
(* Claims about sessions on their way back to a pool.                      *)
(***************************************************************************)

\* caller c gives back a valid session while the pool is not closed
GivesBackValid(c) ==
    /\ caller[c] = "holding"
    /\ caller'[c] = "idle"
    /\ IsValid(held[c])
    /\ ~is_closed

\* C36: in SpawnerSessionPool (multithread tasks) the returning task keeps
\* serving after an invalid session was given back and discarded: a valid
\* session given back while the pool is not closed is taken by the returning
\* channel, from where it reaches the idle queue, and the returning task has
\* not ended while the pool is open.
C36_ReturningTaskKeepsServing ==
    [][/\ \A c \in Callers :
             GivesBackValid(c) => returning' = Append(returning, held[c])
       /\ ~is_closed' => ret_pc' # "done"]_vars

\* C37: when the caller of get() has gone away by the time
\* ThreadedSessionPool delivers a session to it, the session is not lost: it
\* is in the idle queue afterwards, available to later get() calls.
C37_UndeliveredSessionKept ==
    [][(ProvidesToClosed /\ req_pc' = "recv")
          => PopBackSession(sessions) \in SeqElems(sessions')]_vars

\* caller c's QldbClient::transaction fails at start-transaction in this step
StartTransactionFails(c) ==
    /\ caller[c] = "holding"
    /\ ret' # ret
    /\ ret'.res \in StartResults \ {"Ok"}
    /\ ret'.v = held[c]

\* C38: when QldbClient::transaction has acquired a session and the
\* start-transaction command fails (transport error or empty transaction
\* id), the session is given back to the pool before the error is returned:
\* no acquired session is left without an owner.
C38_FailedStartGivesBack ==
    [][\A c \in Callers :
          StartTransactionFails(c) => held[c] \in SeqElems(returning')]_vars

(***************************************************************************)
(* Claims about the shutdown of ThreadedSessionPool.                       *)
(***************************************************************************)

\* caller c is suspended in get(): its request is queued, being served or
\* being requeued, and receiver.recv() has not returned
Pending(c) == caller[c] \in {"waiting", "waiting_late"}

\* C39: after close() on ThreadedSessionPool every get() that is still
\* pending eventually completes, with a session or with an error; no caller
\* stays suspended forever.
C39_PendingGetCompletes ==
    \A c \in Callers : (is_closed /\ Pending(c)) ~> ~Pending(c)

\* the returning task takes a session from the returning channel after close()
TakesReturnedAfterClose ==
    /\ ret_pc = "recv"
    /\ returning # <<>>
    /\ returning' = Tail(returning)
    /\ is_closed

\* the spawned close_session tasks `tasks` include one for session s:
\* end-session is being sent
EndSessionSpawned(tasks, s) == \E t \in 0..MaxTries : <<s, t>> \in tasks

\* C40: when the pool is shut down its sessions are destroyed with
\* end-session: a session given back after close() is handed to
\* close_session when the returning task takes it, and a session that is idle
\* once the pool is closed and both tasks have ended has had close_session
\* spawned for it; none is dropped without an end-session command.
C40_ShutdownEndsSessions ==
    [][/\ TakesReturnedAfterClose => EndSessionSpawned(closing', Head(returning))
       /\ (is_closed' /\ req_pc' = "done" /\ ret_pc' = "done") => sessions' = <<>>]_vars

====
